---- MODULE Spec2Model ----
(***************************************************************************)
(* notion-md-sync: the sync engine (sync_engine.py), the front-matter      *)
(* store (markdown_parser.py), the gateway wrapper (notion_client.py) and  *)
(* the block converter (block_converter.py), as a state machine.           *)
(*                                                                         *)
(* Text is modelled as a sequence of one-character strings, a document     *)
(* body as the sequence of its lines (content.split('\n')).                *)
(***************************************************************************)
EXTENDS Integers, Sequences, FiniteSets, TLC

(***************************************************************************)
(* Text helpers (Python str methods and the two regular expressions).      *)
(***************************************************************************)
NL == "\n"

IsSpace(c) == c \in {" ", "\t"}

IsDigit(c) == c \in {"0", "1", "2", "3", "4", "5", "6", "7", "8", "9"}

\* s[n:]
Drop(s, n) == SubSeq(s, n + 1, Len(s))

\* s.startswith(p)
StartsWith(s, p) == Len(s) >= Len(p) /\ SubSeq(s, 1, Len(p)) = p

RECURSIVE LStrip(_)
LStrip(s) == IF s = <<>> THEN s
             ELSE IF IsSpace(Head(s)) THEN LStrip(Tail(s)) ELSE s

RECURSIVE RStrip(_)
RStrip(s) == IF s = <<>> THEN s
             ELSE IF IsSpace(s[Len(s)]) THEN RStrip(SubSeq(s, 1, Len(s) - 1)) ELSE s

\* str.strip()
Strip(s) == RStrip(LStrip(s))

\* number of leading characters of s that satisfy the test
RECURSIVE LeadingHashes(_)
LeadingHashes(s) == IF s # <<>> /\ Head(s) = "#" THEN 1 + LeadingHashes(Tail(s)) ELSE 0

RECURSIVE LeadingDigits(_)
LeadingDigits(s) == IF s # <<>> /\ IsDigit(Head(s)) THEN 1 + LeadingDigits(Tail(s)) ELSE 0

RECURSIVE LeadingSpaces(_)
LeadingSpaces(s) == IF s # <<>> /\ IsSpace(Head(s)) THEN 1 + LeadingSpaces(Tail(s)) ELSE 0

\* The tail "\s+(.+)$" of both regular expressions, matched against rest:
\* greedy whitespace, then at least one character (backtracking one blank
\* when only whitespace is left).  <<>> is "no match" (a match is never empty).
SpaceThenText(rest) ==
    LET m == LeadingSpaces(rest)
        after == Drop(rest, m)
    IN  IF m = 0 THEN <<>>
        ELSE IF after # <<>> THEN after
        ELSE IF m >= 2 THEN <<rest[m]>>
        ELSE <<>>

\* re.match(r'^(#{1,3})\s+(.+)$', line): a '#' after the run of hashes is no
\* whitespace, so the run itself must be 1..3 long.
HeadingLevel(line) == LeadingHashes(line)

HeadingText(line) == SpaceThenText(Drop(line, LeadingHashes(line)))

HeadingMatch(line) ==
    /\ LeadingHashes(line) \in 1..3
    /\ HeadingText(line) # <<>>

\* re.match(r'^\d+\.\s+(.+)$', line)
NumberedText(line) ==
    LET d == LeadingDigits(line)
    IN  IF d >= 1 /\ Len(line) > d /\ line[d + 1] = "."
        THEN SpaceThenText(Drop(line, d + 1))
        ELSE <<>>

NumberedMatch(line) == NumberedText(line) # <<>>

\* '\n'.join(lines)
RECURSIVE JoinLines(_)
JoinLines(ls) == IF ls = <<>> THEN <<>>
                 ELSE IF Len(ls) = 1 THEN ls[1]
                 ELSE ls[1] \o <<NL>> \o JoinLines(Tail(ls))

\* text.split('\n')
RECURSIVE SplitFrom(_, _)
SplitFrom(text, cur) ==
    IF text = <<>> THEN <<cur>>
    ELSE IF Head(text) = NL THEN <<cur>> \o SplitFrom(Tail(text), <<>>)
    ELSE SplitFrom(Tail(text), Append(cur, Head(text)))

SplitLines(text) == SplitFrom(text, <<>>)

(***************************************************************************)
(* block_converter.py                                                      *)
(***************************************************************************)
\* U+0060 cannot be written inside a TLA+ string: the atom "bt" stands for it
Backtick == "bt"

Fence == <<Backtick, Backtick, Backtick>>

Block(type, text, language) == [type |-> type, text |-> text, language |-> language]

create_heading_block(text, level) ==
    LET lv == IF level > 3 THEN 3 ELSE level
    IN  Block(CASE lv = 1 -> "heading_1" [] lv = 2 -> "heading_2" [] OTHER -> "heading_3",
              text, <<>>)

create_paragraph_block(text) == Block("paragraph", text, <<>>)

create_code_block(code, language) == Block("code", code, language)

create_quote_block(text) == Block("quote", text, <<>>)

create_bullet_list_item(text) == Block("bulleted_list_item", text, <<>>)

create_numbered_list_item(text) == Block("numbered_list_item", text, <<>>)

\* the inner while: first index >= i whose stripped line starts with the fence,
\* or Len(lines) + 1
RECURSIVE FenceEnd(_, _)
FenceEnd(lines, i) ==
    IF i > Len(lines) THEN i
    ELSE IF StartsWith(Strip(lines[i]), Fence) THEN i
    ELSE FenceEnd(lines, i + 1)

\* a loop that goes on at the closing fence instead of after it
RECURSIVE md_loop_keeps_fence(_, _)
md_loop_keeps_fence(lines, i) ==
    IF i > Len(lines) THEN <<>>
    ELSE
      LET line == Strip(lines[i])
      IN  IF line = <<>> THEN md_loop_keeps_fence(lines, i + 1)
          ELSE IF StartsWith(line, Fence)
               THEN LET j == FenceEnd(lines, i + 1)
                    IN  <<create_code_block(JoinLines(SubSeq(lines, i + 1, j - 1)),
                                            Strip(Drop(line, 3)))>>
                        \o md_loop_keeps_fence(lines, j)
          ELSE <<create_paragraph_block(line)>> \o md_loop_keeps_fence(lines, i + 1)

\* the outer while of markdown_to_blocks, from index i
RECURSIVE md_loop(_, _)
md_loop(lines, i) ==
    IF i > Len(lines) THEN <<>>
    ELSE
      LET line == Strip(lines[i])
      IN  IF line = <<>> THEN md_loop(lines, i + 1)
          ELSE IF HeadingMatch(line)
               THEN <<create_heading_block(HeadingText(line), HeadingLevel(line))>>
                    \o md_loop(lines, i + 1)
          ELSE IF StartsWith(line, Fence)
               THEN LET j == FenceEnd(lines, i + 1)
                    IN  <<create_code_block(JoinLines(SubSeq(lines, i + 1, j - 1)),
                                            Strip(Drop(line, 3)))>>
                        \o md_loop(lines, j + 1)
          ELSE IF StartsWith(line, <<"-", " ">>) \/ StartsWith(line, <<"*", " ">>)
               THEN <<create_bullet_list_item(Strip(Drop(line, 2)))>> \o md_loop(lines, i + 1)
          ELSE IF NumberedMatch(line)
               THEN <<create_numbered_list_item(NumberedText(line))>> \o md_loop(lines, i + 1)
          ELSE IF StartsWith(line, <<">", " ">>)
               THEN <<create_quote_block(Strip(Drop(line, 2)))>> \o md_loop(lines, i + 1)
          ELSE <<create_paragraph_block(line)>> \o md_loop(lines, i + 1)

\* markdown_to_blocks(markdown_content); the content is given as its lines
markdown_to_blocks(lines) == md_loop(lines, 1)

\* a rendering that leaves the code fence open
BlockLines_open_fence(b) ==
    CASE b.type = "heading_1" -> <<<<"#", " ">> \o b.text>>
      [] b.type = "heading_2" -> <<<<"#", "#", " ">> \o b.text>>
      [] b.type = "heading_3" -> <<<<"#", "#", "#", " ">> \o b.text>>
      [] b.type = "paragraph" -> <<b.text>>
      [] b.type = "code" -> <<Fence \o b.language, b.text>>
      [] b.type = "quote" -> <<<<">", " ">> \o b.text>>
      [] b.type = "bulleted_list_item" -> <<<<"-", " ">> \o b.text>>
      [] b.type = "numbered_list_item" -> <<<<"1", ".", " ">> \o b.text>>
      [] OTHER -> <<>>

\* the markdown_lines one block contributes, before the blank line
BlockLines(b) ==
    CASE b.type = "heading_1" -> <<<<"#", " ">> \o b.text>>
      [] b.type = "heading_2" -> <<<<"#", "#", " ">> \o b.text>>
      [] b.type = "heading_3" -> <<<<"#", "#", "#", " ">> \o b.text>>
      [] b.type = "paragraph" -> <<b.text>>
      [] b.type = "code" -> <<Fence \o b.language, b.text, Fence>>
      [] b.type = "quote" -> <<<<">", " ">> \o b.text>>
      [] b.type = "bulleted_list_item" -> <<<<"-", " ">> \o b.text>>
      [] b.type = "numbered_list_item" -> <<<<"1", ".", " ">> \o b.text>>
      [] OTHER -> <<>>

RECURSIVE markdown_lines(_)
markdown_lines(blocks) ==
    IF blocks = <<>> THEN <<>>
    ELSE BlockLines(Head(blocks)) \o <<<<>>>> \o markdown_lines(Tail(blocks))

\* blocks_to_markdown(blocks), as the lines of the returned text
blocks_to_markdown(blocks) == SplitLines(JoinLines(markdown_lines(blocks)))

(***************************************************************************)
(* Bounds of the model.                                                    *)
(***************************************************************************)
\* the clock runs 1..MaxClock
MaxClock == 2

\* at most MaxPages remote pages ever exist
MaxPages == 1

(***************************************************************************)
(* Timestamps.  A datetime is [t, aware]; its text form [t, off] carries   *)
(* the UTC offset suffix: "" (naive), "Z" or "+00:00".                     *)
(***************************************************************************)
\* datetime.now(): naive local time
datetime_now(clk) == [t |-> clk, aware |-> FALSE]

\* datetime.isoformat()
isoformat(dt) == [t |-> dt.t, off |-> IF dt.aware THEN "+00:00" ELSE ""]

\* str.replace("Z", "+00:00") on a timestamp text
replace_Z(s) == IF s.off = "Z" THEN [s EXCEPT !.off = "+00:00"] ELSE s

\* datetime.fromisoformat(text): ValueError on a text it cannot read
fromisoformat(s) ==
    IF s.off \in {"", "+00:00"}
    THEN [exc |-> FALSE, dt |-> [t |-> s.t, aware |-> s.off # ""]]
    ELSE [exc |-> TRUE, dt |-> [t |-> 0, aware |-> FALSE]]

\* datetime.fromtimestamp(os.path.getmtime(path)): naive local time
fromtimestamp(m) == [t |-> m, aware |-> FALSE]

\* a > b on datetimes: TypeError when one is naive and the other aware
dt_greater(a, b) ==
    IF a.aware # b.aware THEN [exc |-> TRUE, v |-> FALSE]
    ELSE [exc |-> FALSE, v |-> a.t > b.t]

(***************************************************************************)
(* Front matter (markdown_parser.py).  A header is a function from its     *)
(* keys to values; a file is [header, body, mtime].                        *)
(***************************************************************************)
Has(h, k) == k \in DOMAIN h

\* a header as replacing it by the update would leave it
merge_metadata_replace(h, new) == new

\* a merge that keeps the value of a key the header already has
merge_metadata_setdefault(h, new) ==
    [k \in DOMAIN h \cup DOMAIN new |-> IF k \in DOMAIN h THEN h[k] ELSE new[k]]

\* post[key] = value for every key of new_metadata: new keys added, existing
\* keys overwritten, the others kept
merge_metadata(h, new) ==
    [k \in DOMAIN h \cup DOMAIN new |-> IF k \in DOMAIN new THEN new[k] ELSE h[k]]

StripWsChar(c) == IsSpace(c) \/ c = NL

RECURSIVE LStripText(_)
LStripText(s) == IF s = <<>> THEN s
                 ELSE IF StripWsChar(Head(s)) THEN LStripText(Tail(s)) ELSE s

RECURSIVE RStripText(_)
RStripText(s) == IF s = <<>> THEN s
                 ELSE IF StripWsChar(s[Len(s)]) THEN RStripText(SubSeq(s, 1, Len(s) - 1))
                 ELSE s

\* frontmatter.load: post.content is the text after the header, stripped
post_content(body) == SplitLines(RStripText(LStripText(JoinLines(body))))

\* extract_title(content): the first line that starts with '# '
RECURSIVE extract_title(_)
extract_title(lines) ==
    IF lines = <<>> THEN <<>>
    ELSE IF StartsWith(Head(lines), <<"#", " ">>) THEN Strip(Drop(Head(lines), 2))
    ELSE extract_title(Tail(lines))

(***************************************************************************)
(* State.                                                                  *)
(***************************************************************************)
VARIABLES
    files,    \* path -> [header, body, mtime], for the files that exist;
              \* a path is the file's stem inside the markdown root
    pages,    \* page id -> [live, title, blocks, edited, props], for the pages
              \* of the workspace that the header of a file names (the program
              \* reaches a page only through the id stored in a header)
    created,  \* the number of pages the workspace has ever held
    now,      \* the clock
    config,   \* "page_parent", "database_parent" (token and parent id set, the
              \* parent being a page or a database), "no_parent", "no_token"
    last,     \* what the last operation did and returned
    hist,     \* path -> what happened since the last successful sync of it
    fn,       \* one call of a pure function: its name, argument and result
    watcher,  \* the state of the file watcher
    client,   \* the gateway's rate budget, the remote's quota and the callers
    batch,    \* the state of a batch sync (sync_all)
    workers   \* the positions of sync operations running concurrently

vars == <<files, pages, created, now, config, last, hist, fn, watcher, client, batch, workers>>

\* the user's document, my-t.md: the name a pull of a page titled TitleA
\* derives when no path is given
UserDoc == <<"m", "y", "-", "t">>

TitleA == <<"M", "y", ":", " ", "T">>

\* a YAML list value and a YAML string value of a user key
ListValue(v) == [kind |-> "list", v |-> v]

StrValue(v) == [kind |-> "str", v |-> v]

TagsA == ListValue(<<"test", "integration">>)

\* document bodies, as lines
BodyHeading == << <<"#", " ", "T">>, <<>>, <<"p">> >>

BodyMixed == << <<"-", " ", "b">>, <<Backtick, Backtick, Backtick, "p", "y">>, <<"c">>, <<>> >>

Bodies == {BodyHeading, BodyMixed}

\* block sequences an edit on the remote side leaves on a page
RemoteQuote == << Block("quote", <<"q">>, <<>>) >>

RemoteMixed == << Block("divider", <<>>, <<>>), Block("heading_2", <<"h">>, <<>>) >>

RemoteBlockSeqs == {RemoteMixed}

NoProps == [k \in {} |-> <<>>]

Page(title, blocks, edited, props) ==
    [live |-> TRUE, title |-> title, blocks |-> blocks, edited |-> edited, props |-> props]

\* last_edited_time of a page: ISO-8601 UTC with the 'Z' suffix
last_edited_time(pg) == [t |-> pg.edited, off |-> "Z"]

NoHist == [synced |-> FALSE, id |-> 0, localEdit |-> FALSE, remoteEdit |-> FALSE]

NoOp == [op |-> "none", path |-> <<>>, id |-> 0, outcome |-> "none", branch |-> "none",
         creates |-> 0, attempts |-> 0, fatal |-> "none", absorbed |-> FALSE,
         start |-> 0, idBefore |-> 0, lsBefore |-> -1, got |-> "none", lookup |-> "none",
         omitted |-> FALSE, existed |-> FALSE, before |-> <<>>]

\* The fields of last: op ("push", "pull", "detect"), its path and page id
\* arguments (for push, id is the header's link afterwards), the outcome
\* ("ok", "fail", "raised"; "true", "false" for detect), the branch taken
\* ("create", "update"; "created", "updated" for pull), the number of
\* create_page calls and of page-create attempts, the step at which a failure
\* was injected (fatal), whether an exception was absorbed, the clock at the
\* start, the header's link and last_synced before, how get_page of the
\* header's link went in a push ("none": no link, "ok", "fail"), and for
\* detect the lookup that failed; for pull whether the path was omitted and
\* whether the target file existed before; for push the child blocks of the
\* header's page before (none when there is no such page).

TokenConfigured == config # "no_token"

ParentConfigured == config \in {"page_parent", "database_parent"}

\* an id in a header that names no page of the workspace any more
StaleId == MaxPages + 1

HeaderPlain == [title |-> TitleA, tags |-> TagsA]

HeaderStale == [title |-> TitleA, notion_page_id |-> StaleId, tags |-> TagsA]

HeaderLinked == [title |-> TitleA, notion_page_id |-> 1, tags |-> TagsA]

HeaderSynced == [title |-> TitleA, notion_page_id |-> 1, tags |-> TagsA,
                 last_synced |-> isoformat(datetime_now(1))]

\* a last_synced written by hand that is no ISO-8601 text
HeaderGarbled == [title |-> TitleA, notion_page_id |-> 1, tags |-> TagsA,
                  last_synced |-> [t |-> 1, off |-> "?"]]

NoPages == [i \in {} |-> Page(<<>>, <<>>, 0, NoProps)]

InitFile(h, m) == (UserDoc :> [header |-> h, body |-> BodyHeading, mtime |-> m])

\* no pure function is being called, and no watcher runs, during the sync runs
NoCall == [op |-> "none"]

NoWatcher == [running |-> FALSE]

NoClient == [running |-> FALSE]

NoBatch == [running |-> FALSE]

NoWorkers == [running |-> FALSE]

\* the variables the sync operations leave alone
aux == <<fn, watcher, client, batch, workers>>

\* The document exists; it is not linked, or holds a stale link, or is linked
\* to the one page of the workspace and possibly synchronized with it at time 1
\* (or carrying an unreadable last_synced); the file's mtime is 0 or 1.
Init ==
    /\ now = 1
    /\ last = NoOp
    /\ fn = NoCall
    /\ watcher = NoWatcher
    /\ client = NoClient
    /\ batch = NoBatch
    /\ workers = NoWorkers
    /\ hist = (UserDoc :> NoHist)
    /\ \/ /\ config \in {"page_parent", "database_parent", "no_parent", "no_token"}
          /\ pages = NoPages
          /\ created = 0
          /\ files = InitFile(HeaderPlain, 1)
       \/ /\ config = "page_parent"
          /\ pages = NoPages
          /\ created = 0
          /\ files = InitFile(HeaderStale, 1)
       \/ /\ config = "page_parent"
          /\ pages = (1 :> Page(TitleA, RemoteQuote, 0, NoProps))
          /\ created = 1
          /\ \/ files = InitFile(HeaderLinked, 1)
             \/ files = InitFile(HeaderGarbled, 1)
             \/ \E m \in 0..1 : files = InitFile(HeaderSynced, m)

(***************************************************************************)
(* notion_client.py                                                        *)
(***************************************************************************)
\* get_page(page_id) returns (does not raise)
get_page_ok(id, transient) == id \in DOMAIN pages /\ pages[id].live /\ ~transient

\* an update_page_blocks that appends the new blocks and deletes nothing
update_page_blocks_append(pg, blocks, fail, k, clk) ==
    IF fail \in {"list", "delete", "append"} THEN [exc |-> TRUE, page |-> pg]
    ELSE [exc |-> FALSE, page |-> [pg EXCEPT !.blocks = pg.blocks \o blocks, !.edited = clk]]

\* update_page_blocks(page_id, blocks) on page pg at time clk: list the
\* children, delete them one by one, append the new blocks.  fail names the
\* gateway call that raises ("list", "delete" at the k-th child, "append").
update_page_blocks(pg, blocks, fail, k, clk) ==
    CASE fail = "list" -> [exc |-> TRUE, page |-> pg]
      [] fail = "delete" ->
            [exc |-> TRUE,
             page |-> [pg EXCEPT !.blocks = Drop(pg.blocks, k - 1),
                                 !.edited = IF k > 1 THEN clk ELSE pg.edited]]
      [] fail = "append" ->
            [exc |-> TRUE,
             page |-> [pg EXCEPT !.blocks = <<>>,
                                 !.edited = IF pg.blocks # <<>> THEN clk ELSE pg.edited]]
      [] OTHER ->
            [exc |-> FALSE, page |-> [pg EXCEPT !.blocks = blocks, !.edited = clk]]

\* create_page(parent_id, title, properties) under a parent of the given kind:
\* probe the parent as a database, create with the kind found, and on failure
\* create once more with the opposite kind.  tr: the calls that fail for a
\* reason other than the parent's kind.
create_page(kind, tr) ==
    LET is_database == kind = "database" /\ ~tr.probe
        first == IF is_database THEN "database" ELSE "page"
        second == IF is_database THEN "page" ELSE "database"
        ok1 == first = kind /\ ~tr.c1
        ok2 == second = kind /\ ~tr.c2
    IN  [exc |-> ~ok1 /\ ~ok2, attempts |-> IF ok1 THEN 1 ELSE 2]

NoTransient == [probe |-> FALSE, c1 |-> FALSE, c2 |-> FALSE]

(***************************************************************************)
(* markdown_parser.py: the two writers                                     *)
(***************************************************************************)
\* update_frontmatter(file_path, new_metadata), the write landing at time clk
update_frontmatter(fs, path, new, clk, fails) ==
    IF path \notin DOMAIN fs \/ fails THEN [exc |-> TRUE, files |-> fs]
    ELSE [exc |-> FALSE,
          files |-> [fs EXCEPT ![path] =
                        [header |-> merge_metadata(fs[path].header, new),
                         body |-> post_content(fs[path].body),
                         mtime |-> clk]]]

\* create_markdown_with_frontmatter(file_path, metadata, content)
create_markdown_with_frontmatter(fs, path, metadata, content, clk, fails) ==
    IF fails THEN [exc |-> TRUE, files |-> fs]
    ELSE [exc |-> FALSE,
          files |-> [q \in DOMAIN fs \cup {path} |->
                        IF q = path
                        THEN [header |-> metadata, body |-> content, mtime |-> clk]
                        ELSE fs[q]]]

(***************************************************************************)
(* sync_engine.py: sync_file_to_notion                                     *)
(***************************************************************************)
\* str(value) of a header value
RECURSIVE py_repr_items(_)
py_repr_items(v) ==
    IF v = <<>> THEN <<>>
    ELSE <<"'", Head(v), "'">> \o (IF Len(v) > 1 THEN <<",", " ">> ELSE <<>>)
         \o py_repr_items(Tail(v))

py_str(value) == IF value.kind = "list" THEN <<"[">> \o py_repr_items(value.v) \o <<"]">>
                 ELSE value.v

LinkKeys == {"title", "notion_page_id", "last_synced"}

\* the result of the try block: exc (an exception left it), ret (the value
\* returned when none did), the files, pages and clock it leaves, and what
\* it did
Result(exc, ret, fs, pgs, clk, branch, creates, attempts, absorbed) ==
    [exc |-> exc, ret |-> ret, files |-> fs, pages |-> pgs, clock |-> clk,
     branch |-> branch, creates |-> creates, attempts |-> attempts,
     absorbed |-> absorbed]

\* metadata.get("notion_page_id"), 0 for None
linked_id(metadata) ==
    IF Has(metadata, "notion_page_id") THEN metadata["notion_page_id"] ELSE 0

\* lines 62-69: the header's title, else the first '# ' line, else the stem
push_title(metadata, raw, path) ==
    IF Has(metadata, "title") /\ metadata["title"] # <<>> THEN metadata["title"]
    ELSE IF extract_title(raw) # <<>> THEN extract_title(raw)
    ELSE path

\* lines 146-152: the closing update_frontmatter and the return
push_finish(fs, pgs, path, sc, branch, creates, attempts, absorbed) ==
    LET w == update_frontmatter(fs, path,
                 [last_synced |-> isoformat(datetime_now(now))],
                 now + sc.d2, sc.fatal = "write2")
    IN  IF w.exc
        THEN Result(TRUE, "fail", w.files, pgs, now, branch, creates, attempts, absorbed)
        ELSE Result(FALSE, "ok", w.files, pgs, now + sc.d2, branch, creates, attempts,
                    absorbed)

\* lines 47-72 on a readable file: the header, the content, the linked id,
\* the title and the converted blocks
push_parse(path) ==
    LET metadata == files[path].header
        raw == post_content(files[path].body)
    IN  [metadata |-> metadata, notion_page_id |-> linked_id(metadata),
         title |-> push_title(metadata, raw, path), blocks |-> markdown_to_blocks(raw)]

\* lines 78-144: the CREATE path
push_create(path, pf, sc, absorbed) ==
    IF ~ParentConfigured
    THEN Result(FALSE, "fail", files, pages, now, "create", 0, 0, absorbed)
    ELSE
      LET kind == IF config = "database_parent" THEN "database" ELSE "page"
          is_db == kind = "database" /\ ~sc.probe108
          props == IF is_db
                   THEN [k \in DOMAIN pf.metadata \ LinkKeys |-> py_str(pf.metadata[k])]
                   ELSE NoProps
          c == create_page(kind, sc.tr)
          newId == created + 1
          pgs0 == pages @@ (newId :> Page(pf.title, <<>>, now, props))
          u == update_page_blocks(pgs0[newId], pf.blocks, sc.fatal, sc.k, now)
          pgs1 == [pgs0 EXCEPT ![newId] = u.page]
          w == update_frontmatter(files, path,
                   [notion_page_id |-> newId,
                    last_synced |-> isoformat(datetime_now(now))],
                   now, sc.fatal = "write1")
          ab == absorbed \/ (kind = "database" /\ sc.probe108) \/ sc.tr.probe
                  \/ c.attempts = 2
      IN  IF c.exc
          THEN Result(TRUE, "fail", files, pages, now, "create", 1, c.attempts, ab)
          ELSE IF u.exc
          THEN Result(TRUE, "fail", files, pgs1, now, "create", 1, c.attempts, ab)
          ELSE IF w.exc
          THEN Result(TRUE, "fail", files, pgs1, now, "create", 1, c.attempts, ab)
          ELSE push_finish(w.files, pgs1, path, sc, "create", 1, c.attempts, ab)

\* a push in which the failure of get_page leaves the try block
push_try_stale_fails(path, pf, sc) ==
    IF path \notin DOMAIN files \/ sc.fatal = "parse"
    THEN Result(TRUE, "fail", files, pages, now, "none", 0, 0, FALSE)
    ELSE IF pf.notion_page_id = 0 THEN push_create(path, pf, sc, FALSE)
    ELSE IF ~get_page_ok(pf.notion_page_id, sc.getFails)
    THEN Result(TRUE, "fail", files, pages, now, "none", 0, 0, FALSE)
    ELSE LET u == update_page_blocks(pages[pf.notion_page_id], pf.blocks, sc.fatal,
                                     sc.k, now)
             pgs == [pages EXCEPT ![pf.notion_page_id] = u.page]
         IN  IF u.exc
             THEN Result(TRUE, "fail", files, pgs, now, "update", 0, 0, FALSE)
             ELSE push_finish(files, pgs, path, sc, "update", 0, 0, FALSE)

\* lines 47-76: parse, look the link up, and the UPDATE path
push_try(path, pf, sc) ==
    IF path \notin DOMAIN files \/ sc.fatal = "parse"
    THEN Result(TRUE, "fail", files, pages, now, "none", 0, 0, FALSE)
    ELSE
      LET notion_page_id == pf.notion_page_id
          page_exists == notion_page_id # 0 /\ get_page_ok(notion_page_id, sc.getFails)
          absorbed == notion_page_id # 0 /\ ~page_exists
      IN  IF page_exists
          THEN LET u == update_page_blocks(pages[notion_page_id], pf.blocks, sc.fatal,
                                           sc.k, now)
                   pgs == [pages EXCEPT ![notion_page_id] = u.page]
               IN  IF u.exc
                   THEN Result(TRUE, "fail", files, pgs, now, "update", 0, 0, absorbed)
                   ELSE push_finish(files, pgs, path, sc, "update", 0, 0, absorbed)
          ELSE push_create(path, pf, sc, absorbed)

\* an except clause that lets the exception through
sync_except_reraise(r) == IF r.exc THEN "raised" ELSE r.ret

\* the except clause of both entry points: (False, message) for any exception;
\* "raised" is an exception that reaches the caller
sync_except(r) == IF r.exc THEN "fail" ELSE r.ret

\* sync_file_to_notion(file_path); pf is push_parse(file_path) when the file
\* can be read
sync_file_to_notion(path, pf, sc) ==
    IF ~TokenConfigured
    THEN Result(FALSE, "fail", files, pages, now, "none", 0, 0, FALSE)
    ELSE LET r == push_try(path, pf, sc) IN [r EXCEPT !.ret = sync_except(r)]

\* a path no file has
MissingDoc == <<"z">>

\* the inputs of one call: the gateway or file-system call that raises and
\* ends the try block (fatal; the k-th delete for "delete"), the calls that
\* raise and are absorbed (getFails: get_page of line 56; probe108: the
\* database probe of line 108; tr: inside create_page), and the time that
\* passes between taking the closing timestamp and the write landing (d2)
Sc0 == [fatal |-> "none", k |-> 0, getFails |-> FALSE, probe108 |-> FALSE,
        tr |-> NoTransient, d2 |-> 0]

Timed(S) == {[sc EXCEPT !.d2 = b] : sc \in S, b \in 0..1}

\* the ways create_page's calls can fail that lead to different runs of it
TransientOpts ==
    IF config = "database_parent"
    THEN {NoTransient, [NoTransient EXCEPT !.c1 = TRUE], [NoTransient EXCEPT !.probe = TRUE],
          [NoTransient EXCEPT !.probe = TRUE, !.c2 = TRUE]}
    ELSE {NoTransient, [NoTransient EXCEPT !.c1 = TRUE]}

UpdateScenarios(id) ==
    Timed({Sc0})
    \cup {[Sc0 EXCEPT !.fatal = f] : f \in {"list", "append", "write2"}}
    \cup {[Sc0 EXCEPT !.fatal = "delete", !.k = k] : k \in 1..Len(pages[id].blocks)}

CreateScenarios(g) ==
    IF ~ParentConfigured THEN {[Sc0 EXCEPT !.getFails = g]}
    ELSE LET P == IF config = "database_parent" THEN BOOLEAN ELSE {FALSE}
             G == [Sc0 EXCEPT !.getFails = g]
         IN  Timed({G})
             \cup {[G EXCEPT !.probe108 = TRUE] : pr \in P \ {FALSE}}
             \cup {[G EXCEPT !.tr = tr] : tr \in TransientOpts}
             \cup {[G EXCEPT !.fatal = f] : f \in {"list", "append", "write1", "write2"}}

PushScenarios(path) ==
    {[Sc0 EXCEPT !.fatal = "parse"]}
    \cup IF path \notin DOMAIN files THEN {}
         ELSE LET id == linked_id(files[path].header)
              IN  IF get_page_ok(id, FALSE)
                  THEN UpdateScenarios(id) \cup CreateScenarios(TRUE)
                  ELSE CreateScenarios(FALSE)

\* last_synced of the file at path as a time, -1 when there is none
last_synced_of(fs, path) ==
    IF path \in DOMAIN fs /\ Has(fs[path].header, "last_synced")
    THEN fs[path].header["last_synced"].t ELSE -1

link_of(fs, path) == IF path \in DOMAIN fs THEN linked_id(fs[path].header) ELSE 0

\* hist after an operation that left files fs and pages pgs and, when okPath
\* is a path, synchronized that path with page okId
HistAfter(fs, pgs, okPath, okId) ==
    [q \in DOMAIN fs |->
        IF q = okPath
        THEN [synced |-> TRUE, id |-> okId, localEdit |-> FALSE, remoteEdit |-> FALSE]
        ELSE IF q \notin DOMAIN hist \/ ~hist[q].synced \/ link_of(fs, q) # hist[q].id
        THEN NoHist
        ELSE [hist[q] EXCEPT !.remoteEdit = @ \/ pgs[hist[q].id] # pages[hist[q].id]]]

\* the pages that the header of some file names
Tracked(fs, pgs) ==
    [i \in {j \in DOMAIN pgs : \E q \in DOMAIN fs : link_of(fs, q) = j} |-> pgs[i]]

Push(path, pf, sc) ==
    \E r \in {sync_file_to_notion(path, pf, sc)} :
        /\ r.clock <= MaxClock
        /\ created' = IF created + 1 \in DOMAIN r.pages THEN created + 1 ELSE created
        /\ created' <= MaxPages
        /\ files' = r.files
        /\ pages' = Tracked(r.files, r.pages)
        /\ now' = r.clock
        /\ last' = [NoOp EXCEPT !.op = "push", !.path = path, !.outcome = r.ret,
                                !.id = link_of(r.files, path),
                                !.branch = r.branch, !.creates = r.creates,
                                !.attempts = r.attempts, !.fatal = sc.fatal,
                                !.absorbed = r.absorbed, !.start = now,
                                !.idBefore = link_of(files, path),
                                !.lsBefore = last_synced_of(files, path),
                                !.got = IF link_of(files, path) = 0 THEN "none"
                                        ELSE IF get_page_ok(link_of(files, path), sc.getFails)
                                        THEN "ok" ELSE "fail",
                                !.before = IF link_of(files, path) \in DOMAIN pages
                                           THEN pages[link_of(files, path)].blocks
                                           ELSE <<>>]
        /\ hist' = HistAfter(r.files, r.pages,
                             IF r.ret = "ok" THEN path ELSE MissingDoc,
                             link_of(r.files, path))
        /\ UNCHANGED config

(***************************************************************************)
(* sync_engine.py: sync_notion_to_file                                     *)
(***************************************************************************)
UpperCase == <<"A", "B", "C", "D", "E", "F", "G", "H", "I", "J", "K", "L", "M",
               "N", "O", "P", "Q", "R", "S", "T", "U", "V", "W", "X", "Y", "Z">>

LowerCase == <<"a", "b", "c", "d", "e", "f", "g", "h", "i", "j", "k", "l", "m",
               "n", "o", "p", "q", "r", "s", "t", "u", "v", "w", "x", "y", "z">>

IsUpper(c) == \E i \in 1..26 : UpperCase[i] = c

IsLower(c) == \E i \in 1..26 : LowerCase[i] = c

\* str.isalnum() of one character
IsAlnum(c) == IsUpper(c) \/ IsLower(c) \/ IsDigit(c)

\* str.lower() of one character
Lower(c) == IF IsUpper(c) THEN LowerCase[CHOOSE i \in 1..26 : UpperCase[i] = c] ELSE c

\* lines 217-218: keep alphanumerics, ' ', '-' and '_'; ' ' becomes '-'; lowercase
RECURSIVE sanitize_title(_)
sanitize_title(title) ==
    IF title = <<>> THEN <<>>
    ELSE LET c == Head(title)
         IN  (IF IsAlnum(c) \/ c \in {" ", "-", "_"}
              THEN <<IF c = " " THEN "-" ELSE Lower(c)>>
              ELSE <<>>) \o sanitize_title(Tail(title))

\* "no path given" (file_path = None)
NoPath == <<>>

\* lines 184-199: title, notion_page_id, last_synced and the page's rich_text
\* properties other than title
pull_metadata(id, page, clk) ==
    merge_metadata([title |-> page.title, notion_page_id |-> id,
                    last_synced |-> isoformat(datetime_now(clk))],
                   [k \in DOMAIN page.props \ {"title"} |-> StrValue(page.props[k])])

\* lines 172-226; fatal names the call that raises ("get", "list", "write")
pull_try(id, file_path, sc) ==
    IF ~get_page_ok(id, sc.fatal = "get") \/ sc.fatal = "list"
    THEN Result(TRUE, "fail", files, pages, now, "none", 0, 0, FALSE)
    ELSE
      LET page == pages[id]
          markdown_content == blocks_to_markdown(page.blocks)
          metadata == pull_metadata(id, page, now)
          target == IF file_path # NoPath THEN file_path ELSE sanitize_title(page.title)
          branch == IF file_path # NoPath /\ file_path \in DOMAIN files
                    THEN "updated" ELSE "created"
          w == create_markdown_with_frontmatter(files, target, metadata, markdown_content,
                                                now + sc.d2, sc.fatal = "write")
      IN  IF w.exc
          THEN Result(TRUE, "fail", files, pages, now, branch, 0, 0, FALSE)
          ELSE Result(FALSE, "ok", w.files, pages, now + sc.d2, branch, 0, 0, FALSE)

\* sync_notion_to_file(notion_page_id, file_path)
sync_notion_to_file(id, file_path, sc) ==
    IF ~TokenConfigured
    THEN Result(FALSE, "fail", files, pages, now, "none", 0, 0, FALSE)
    ELSE LET r == pull_try(id, file_path, sc) IN [r EXCEPT !.ret = sync_except(r)]

\* the file a pull of page id writes
pull_target(id, file_path) ==
    IF file_path # NoPath THEN file_path ELSE sanitize_title(pages[id].title)

PullScenarios ==
    Timed({Sc0}) \cup {[Sc0 EXCEPT !.fatal = f] : f \in {"get", "list", "write"}}

Pull(id, file_path, sc) ==
    \E r \in {sync_notion_to_file(id, file_path, sc)} :
        /\ r.clock <= MaxClock
        /\ files' = r.files
        /\ pages' = Tracked(r.files, r.pages)
        /\ now' = r.clock
        /\ last' = [NoOp EXCEPT !.op = "pull", !.path = pull_target(id, file_path),
                                !.outcome = r.ret, !.id = id, !.branch = r.branch,
                                !.fatal = sc.fatal, !.start = now,
                                !.idBefore = link_of(files, pull_target(id, file_path)),
                                !.lsBefore = last_synced_of(files, pull_target(id, file_path)),
                                !.omitted = (file_path = NoPath),
                                !.existed = (pull_target(id, file_path) \in DOMAIN files)]
        /\ hist' = HistAfter(r.files, r.pages,
                             IF r.ret = "ok" THEN pull_target(id, file_path) ELSE MissingDoc,
                             id)
        /\ UNCHANGED <<created, config>>

(***************************************************************************)
(* sync_engine.py: detect_conflicts                                        *)
(***************************************************************************)
\* a try block that fetches the page before it looks at last_synced
detect_try_fetch_first(file_path, id, sc) ==
    IF file_path \notin DOMAIN files \/ sc.fatal = "parse" THEN [exc |-> TRUE, v |-> FALSE]
    ELSE IF ~TokenConfigured \/ ~get_page_ok(id, sc.fatal = "get")
    THEN [exc |-> TRUE, v |-> FALSE]
    ELSE IF ~Has(files[file_path].header, "last_synced") THEN [exc |-> FALSE, v |-> FALSE]
    ELSE [exc |-> TRUE, v |-> FALSE]

\* lines 243-269, the try block: exc when an exception leaves it, v the value
\* returned otherwise.  fatal names the lookup that raises: "parse" (the
\* file), "get" (the page), "mtime" (os.path.getmtime).
detect_try(file_path, id, sc) ==
    IF file_path \notin DOMAIN files \/ sc.fatal = "parse" THEN [exc |-> TRUE, v |-> FALSE]
    ELSE
      LET metadata == files[file_path].header
      IN  IF ~Has(metadata, "last_synced") THEN [exc |-> FALSE, v |-> FALSE]
          ELSE
            LET ls == fromisoformat(metadata["last_synced"])
                ne == fromisoformat(replace_Z(last_edited_time(pages[id])))
                fm == fromtimestamp(files[file_path].mtime)
                notion_modified == dt_greater(ne.dt, ls.dt)
                file_modified == dt_greater(fm, ls.dt)
            IN  IF ls.exc THEN [exc |-> TRUE, v |-> FALSE]
                ELSE IF ~TokenConfigured \/ ~get_page_ok(id, sc.fatal = "get")
                THEN [exc |-> TRUE, v |-> FALSE]
                ELSE IF ne.exc \/ sc.fatal = "mtime" THEN [exc |-> TRUE, v |-> FALSE]
                ELSE IF notion_modified.exc \/ file_modified.exc
                THEN [exc |-> TRUE, v |-> FALSE]
                ELSE [exc |-> FALSE, v |-> notion_modified.v /\ file_modified.v]

\* an except clause that answers "no conflict"
detect_except_false(r) == IF r.exc THEN "false" ELSE IF r.v THEN "true" ELSE "false"

\* lines 271-273: any exception means "assume there are conflicts"; the
\* value returned, "raised" being an exception that reaches the caller
detect_except(r) == IF r.exc \/ r.v THEN "true" ELSE "false"

\* detect_conflicts(file_path, notion_page_id)
detect_conflicts(file_path, id, sc) == detect_except(detect_try(file_path, id, sc))

\* the lookup of detect_conflicts that fails in this call, "none" when every
\* lookup it makes succeeds
failed_lookup(file_path, id, sc) ==
    IF file_path \notin DOMAIN files \/ sc.fatal = "parse" THEN "parse"
    ELSE IF ~Has(files[file_path].header, "last_synced") THEN "none"
    ELSE IF fromisoformat(files[file_path].header["last_synced"]).exc THEN "timestamp"
    ELSE IF ~TokenConfigured \/ ~get_page_ok(id, sc.fatal = "get") THEN "get"
    ELSE IF fromisoformat(replace_Z(last_edited_time(pages[id]))).exc THEN "timestamp"
    ELSE IF sc.fatal = "mtime" THEN "mtime"
    ELSE "none"

DetectScenarios(id) ==
    {[Sc0 EXCEPT !.fatal = f] :
        f \in {"none", "parse", "mtime"} \cup (IF id \in DOMAIN pages THEN {"get"} ELSE {})}

DetectConflicts(file_path, id, sc) ==
    /\ last' = [NoOp EXCEPT !.op = "detect", !.path = file_path, !.id = id,
                            !.outcome = detect_conflicts(file_path, id, sc),
                            !.fatal = sc.fatal,
                            !.lookup = failed_lookup(file_path, id, sc)]
    /\ UNCHANGED <<files, pages, created, now, config, hist, fn, watcher, client, batch, workers>>

(***************************************************************************)
(* The environment: the user's editor and the remote workspace.            *)
(***************************************************************************)
\* the user saves a new body
UserEdit(path, body) ==
    /\ path \in DOMAIN files
    /\ files[path].body # body
    /\ files' = [files EXCEPT ![path].body = body, ![path].mtime = now]
    /\ hist' = [hist EXCEPT ![path].localEdit = hist[path].synced]
    /\ UNCHANGED <<pages, created, now, config, last>>

\* somebody edits the page in the remote workspace
RemoteEdit(id, blocks) ==
    /\ id \in DOMAIN pages
    /\ pages[id].blocks # blocks
    /\ pages' = [pages EXCEPT ![id].blocks = blocks, ![id].edited = now]
    /\ hist' = HistAfter(files, pages', MissingDoc, 0)
    /\ UNCHANGED <<files, created, now, config, last>>

\* one call at a time: the caller takes the result before the next call
Idle == last.op = "none"

\* time passes
Tick ==
    /\ Idle
    /\ now < MaxClock
    /\ now' = now + 1
    /\ UNCHANGED <<files, pages, created, config, last, hist, fn, watcher, client, batch, workers>>

\* the caller takes the returned value
Return ==
    /\ last.op # "none"
    /\ last' = NoOp
    /\ UNCHANGED <<files, pages, created, now, config, hist, fn, watcher, client, batch, workers>>

\* the page the document is linked to when that page exists, any page otherwise
LinkedPages(path) ==
    IF link_of(files, path) \in DOMAIN pages THEN {link_of(files, path)} ELSE DOMAIN pages

DoPush ==
    /\ Idle
    /\ UNCHANGED aux
    /\ \E path \in DOMAIN files :
          \E pf \in {push_parse(path)} :
             \E sc \in PushScenarios(path) : Push(path, pf, sc)

DoPull ==
    /\ Idle
    /\ UNCHANGED aux
    /\ \E file_path \in DOMAIN files : \E id \in LinkedPages(file_path) :
          \/ \E sc \in PullScenarios : Pull(id, file_path, sc)
          \/ \E sc \in Timed({Sc0}) : Pull(id, NoPath, sc)

DoDetect ==
    /\ Idle
    /\ UNCHANGED aux
    /\ \E file_path \in DOMAIN files :
          \E id \in LinkedPages(file_path) \cup {StaleId} :
             \E sc \in DetectScenarios(id) : DetectConflicts(file_path, id, sc)

DoUserEdit ==
    /\ Idle
    /\ UNCHANGED aux
    /\ \E path \in DOMAIN files, body \in Bodies : UserEdit(path, body)

DoRemoteEdit ==
    /\ Idle
    /\ UNCHANGED aux
    /\ \E path \in DOMAIN files : \E id \in LinkedPages(path) :
          \E blocks \in RemoteBlockSeqs : RemoteEdit(id, blocks)

Next ==
    \/ DoPush
    \/ DoPull
    \/ DoDetect
    \/ DoUserEdit
    \/ DoRemoteEdit
    \/ Tick
    \/ Return

Spec == Init /\ [][Next]_vars

(***************************************************************************)
(* Properties of push: sync_file_to_notion                                 *)
(***************************************************************************)
\* the push that has just returned ran with a token and a parent configured
\* on a file it could read
PushRan ==
    last.op = "push" /\ TokenConfigured /\ ParentConfigured /\ last.fatal # "parse"

\* C1: a push of a readable document, token and parent configured, whose
\* header has no notion_page_id or one that get_page does not resolve takes
\* the CREATE path, calls create_page, and succeeds when nothing else fails;
\* a push whose notion_page_id resolves takes the UPDATE path and never calls
\* create_page.
C1_CreateOrUpdate ==
    PushRan =>
        /\ last.got \in {"none", "fail"} =>
              /\ last.branch = "create"
              /\ last.creates = 1
              /\ (last.fatal = "none" /\ last.attempts = 1) => last.outcome = "ok"
        /\ last.got = "ok" => (last.branch = "update" /\ last.creates = 0)

\* a push of a document whose stored id did not resolve created a page and
\* returned success
C1_StaleIdCreates ==
    /\ PushRan
    /\ last.got = "fail"
    /\ last.branch = "create"
    /\ last.outcome = "ok"
    /\ last.id # last.idBefore

\* C2: after a push that returns success, the blocks of the page named by the
\* document's notion_page_id are exactly markdown_to_blocks of the body,
\* whatever the page held before.
C2_FullOverwrite ==
    (last.op = "push" /\ last.outcome = "ok") =>
        /\ last.id \in DOMAIN pages
        /\ pages[last.id].blocks = markdown_to_blocks(post_content(files[last.path].body))

\* a successful push on the UPDATE path of a document linked to a page that
\* held blocks no body of the model converts to (never synchronized before)
C2_OverwroteForeignBlocks ==
    /\ last.op = "push"
    /\ last.outcome = "ok"
    /\ last.branch = "update"
    /\ last.lsBefore = -1
    /\ pages[last.id].blocks # <<>>

C4_NoLinkOnFailure ==
    (last.op \in {"push", "pull"} /\ last.outcome = "fail") =>
        link_of(files, last.path) = last.idBefore

DetectRan ==
    /\ last.op = "detect"
    /\ last.lookup = "none"
    /\ Has(files[last.path].header, "last_synced")
    /\ files[last.path].header["last_synced"].off = ""
    /\ last.id \in DOMAIN pages

\* C6: with last_synced = T0 written by the orchestrator and a retrievable
\* page whose last_edited_time ends in 'Z', detect_conflicts returns true
\* exactly when the page's last_edited_time > T0 and the file's mtime > T0.
C6_ConflictIffBothNewer ==
    DetectRan =>
        (last.outcome = "true" <=>
            /\ pages[last.id].edited > last_synced_of(files, last.path)
            /\ files[last.path].mtime > last_synced_of(files, last.path))

\* C7: after a successful push or pull, when at most one of the two sides
\* has been edited since, detect_conflicts returns false.
C7_OneSidedNoConflict ==
    (/\ last.op = "detect"
     /\ last.lookup = "none"
     /\ hist[last.path].synced
     /\ hist[last.path].id = last.id
     /\ ~(hist[last.path].localEdit /\ hist[last.path].remoteEdit)) =>
        last.outcome = "false"

\* C8: for a readable document with no last_synced in its header,
\* detect_conflicts returns false, whatever the page and the mtime are.
C8_NeverSyncedNoConflict ==
    (/\ last.op = "detect"
     /\ last.fatal # "parse"
     /\ ~Has(files[last.path].header, "last_synced")) =>
        last.outcome = "false"

\* detect_conflicts returned false for a never-synchronized document whose
\* page cannot be fetched
C8_NeverSyncedUnfetchable ==
    /\ last.op = "detect"
    /\ ~Has(files[last.path].header, "last_synced")
    /\ last.id = StaleId \/ last.fatal = "get"
    /\ last.outcome = "false"

\* C9: when a lookup that detect_conflicts makes fails, it returns true and
\* raises nothing.
C9_FailedLookupIsConflict ==
    last.op = "detect" =>
        /\ last.outcome \in {"true", "false"}
        /\ last.lookup # "none" => last.outcome = "true"

\* detect_conflicts returned true because fetching the page of a synchronized
\* document failed
C9_FetchFailed ==
    /\ last.op = "detect"
    /\ last.lookup = "get"
    /\ last.fatal = "get"
    /\ Has(files[last.path].header, "last_synced")
    /\ last.outcome = "true"

C12_PullWritesPage ==
    (last.op = "pull" /\ last.outcome = "ok") =>
        /\ last.path \in DOMAIN files
        /\ link_of(files, last.path) = last.id
        /\ files[last.path].header["title"] = pages[last.id].title
        /\ last.start <= last_synced_of(files, last.path)
        /\ last_synced_of(files, last.path) <= now
        /\ post_content(files[last.path].body)
              = post_content(blocks_to_markdown(pages[last.id].blocks))
        /\ last.branch = "updated" <=> last.existed

\* C13: a pull with the path omitted that returns success wrote a file that
\* did not exist before (it never overwrites an existing file).
C13_OmittedPathNeverOverwrites ==
    (last.op = "pull" /\ last.outcome = "ok" /\ last.omitted) => ~last.existed

(***************************************************************************)
(* The pure functions, called on inputs of bounded size: the two           *)
(* converters (block_converter.py), the header merge and the YAML round    *)
(* trip of the front matter (markdown_parser.py), and the file name a pull *)
(* derives from a title (sync_engine.py).                                  *)
(***************************************************************************)
\* a body has at most MaxLines lines
MaxLines == 3

\* a block sequence handed to blocks_to_markdown has at most MaxBlocks blocks
MaxBlocks == 3

\* a page title has at most MaxTitle characters
MaxTitle == 3

\* the lines bodies are made of: blank and whitespace-only lines, a paragraph,
\* headings of 1, 3 and 4 hashes, a '#' with no space, list and quote lines
\* whose text begins with another marker, fences with and without a language,
\* and an indented line
Lines ==
    { <<>>, <<" ">>, <<"p">>,
      <<"#", " ", "t">>, <<"#", "#", "#", " ", "t">>, <<"#", "#", "#", "#", " ", "t">>,
      <<"#", "x">>,
      <<"-", " ", ">", " ", "b">>, <<"*", " ", "b">>,
      <<"1", ".", " ", "#", " ", "n">>,
      <<">", " ", "-", " ", "q">>,
      Fence, <<" ">> \o Fence \o <<"p", "y">>,
      <<" ", "c">> }

\* all sequences over S of length at most n
SeqsUpTo(S, n) == UNION {[1..k -> S] : k \in 0..n}

FnBodies == SeqsUpTo(Lines, MaxLines)

\* the blocks of a remote page: the supported types, a paragraph whose text
\* begins like a heading line, and two unsupported types
RemoteBlocks ==
    { Block("paragraph", <<"p">>, <<>>), Block("heading_2", <<"h">>, <<>>),
      Block("paragraph", <<"#", " ", "t">>, <<>>),
      Block("code", <<"c">>, <<"p", "y">>), Block("quote", <<"q">>, <<>>),
      Block("bulleted_list_item", <<"b">>, <<>>),
      Block("numbered_list_item", <<"n">>, <<>>),
      Block("divider", <<>>, <<>>), Block("image", <<>>, <<>>) }

FnBlockSeqs == SeqsUpTo(RemoteBlocks, MaxBlocks)

TitleChars == {"A", "b", "1", " ", "-", "_", "!", ":"}

FnTitles == SeqsUpTo(TitleChars, MaxTitle)

\* a page id, of which a fallback name would take the first 8 characters
PageIdText == <<"1", "a", "2", "b", "3", "c", "4", "d", "5", "e">>

(***************************************************************************)
(* The YAML front matter as frontmatter.dumps writes it and                *)
(* frontmatter.load reads it.  A value is a scalar (a str, an int, a date   *)
(* or null, v the text of the scalar) or a list of scalar items.           *)
(***************************************************************************)
Scalar(kind, text) == [kind |-> kind, v |-> text, items |-> <<>>]

ListOf(items) == [kind |-> "list", v |-> <<>>, items |-> items]

DateText == <<"2", "0", "2", "3", "-", "0", "6", "-", "0", "9">>

AllDigits(t) == t # <<>> /\ \A i \in 1..Len(t) : IsDigit(t[i])

\* YYYY-MM-DD
IsDateText(t) ==
    /\ Len(t) = 10
    /\ \A i \in {1, 2, 3, 4, 6, 7, 9, 10} : IsDigit(t[i])
    /\ t[5] = "-" /\ t[8] = "-"

\* the type YAML gives a plain (unquoted) scalar
yaml_resolve(text) ==
    IF text = <<>> THEN "null"
    ELSE IF AllDigits(text) THEN "int"
    ELSE IF IsDateText(text) THEN "date"
    ELSE "str"

\* a dump that never quotes a scalar
yaml_represent_scalar_plain(v) == [style |-> "plain", text |-> v.v]

\* yaml.dump of a scalar: a str is quoted when it would not be read as a str
yaml_represent_scalar(v) ==
    [style |-> IF v.kind = "str" /\ yaml_resolve(v.v) # "str" THEN "quoted" ELSE "plain",
     text |-> v.v]

\* yaml.dump of a value
yaml_represent(v) ==
    IF v.kind = "list"
    THEN [style |-> "block",
          items |-> [i \in 1..Len(v.items) |-> yaml_represent_scalar(v.items[i])]]
    ELSE yaml_represent_scalar(v)

\* yaml.load of a scalar
yaml_construct_scalar(node) ==
    IF node.style = "quoted" THEN Scalar("str", node.text)
    ELSE Scalar(yaml_resolve(node.text), node.text)

\* yaml.load of a value
yaml_construct(node) ==
    IF node.style = "block"
    THEN ListOf([i \in 1..Len(node.items) |-> yaml_construct_scalar(node.items[i])])
    ELSE yaml_construct_scalar(node)

\* the front matter of frontmatter.dumps(post)
frontmatter_dumps(metadata) == [k \in DOMAIN metadata |-> yaml_represent(metadata[k])]

\* post.metadata of frontmatter.load(f)
frontmatter_load(text) == [k \in DOMAIN text |-> yaml_construct(text[k])]

\* parse_file(file_path) on the file as written: (metadata, raw_content)
parse_file(file) ==
    [metadata |-> frontmatter_load(frontmatter_dumps(file.header)),
     content |-> post_content(file.body)]

\* header values: strs (one that looks like an int, one like a date, one
\* empty), an int, a date and a list with an item that looks like an int
FnValues ==
    { Scalar("str", <<"x">>), Scalar("str", <<"1", "2">>), Scalar("str", DateText),
      Scalar("str", <<>>), Scalar("int", <<"1", "2">>), Scalar("date", DateText),
      ListOf(<<Scalar("str", <<"a">>), Scalar("str", <<"1", "2">>)>>) }

\* the functions from a subset of the keys K to the values V
PartialFns(K, V) == UNION {[D -> V] : D \in SUBSET K}

\* headers as parse_file returns them, and updates as the callers pass them
FnHeaders == PartialFns({"title", "tags"}, FnValues)

FnUpdates == PartialFns({"title", "notion_page_id"}, FnValues)

\* a body with blank lines around its content, and an empty body
FnFileBodies == { << <<>>, <<"p">>, <<" ">> >>, << >> }

\* the variables of the sync runs
syncVars == <<files, pages, created, now, config, last, hist>>

\* one call of each kind, on every input of the bounded sets
\* headers with a title, with an empty title and without one
TitleHeaders == {HeaderPlain, [HeaderPlain EXCEPT !.title = <<>>], [tags |-> TagsA]}

FnInit ==
    /\ files = InitFile(HeaderPlain, 1)
    /\ pages = NoPages
    /\ created = 0
    /\ now = 1
    /\ config = "page_parent"
    /\ last = NoOp
    /\ hist = (UserDoc :> NoHist)
    /\ watcher = NoWatcher
    /\ client = NoClient
    /\ batch = NoBatch
    /\ workers = NoWorkers
    /\ \/ \E b \in FnBodies :
             fn = [op |-> "convert", stage |-> 0, body |-> b, blocks |-> <<>>,
                   md |-> <<>>, blocks2 |-> <<>>]
       \/ \E bs \in FnBlockSeqs :
             fn = [op |-> "render", stage |-> 0, blocks |-> bs, md |-> <<>>,
                   blocks2 |-> <<>>]
       \/ \E h \in FnHeaders, u \in FnUpdates, b \in FnFileBodies :
             fn = [op |-> "update", stage |-> 0, header |-> h, updates |-> u, body |-> b,
                   read |-> [metadata |-> h, content |-> <<>>]]
       \/ \E t \in FnTitles :
             fn = [op |-> "derive", stage |-> 0, title |-> t, name |-> <<>>]
       \/ \E h \in TitleHeaders, b \in FnBodies :
             fn = [op |-> "title", stage |-> 0, header |-> h, body |-> b,
                   title |-> <<>>, blocks |-> <<>>]

\* markdown_to_blocks on the body, and again on the text rendered from its
\* blocks; on the text rendered from a page's blocks, as the push after a
\* pull does it: on the content parse_file reads from the file written
MarkdownToBlocks ==
    /\ \/ fn.op = "convert" /\ fn.stage \in {0, 2}
       \/ fn.op = "render" /\ fn.stage = 1
    /\ fn' = IF fn.op = "render"
             THEN [fn EXCEPT !.stage = 2,
                             !.blocks2 = markdown_to_blocks(post_content(fn.md))]
             ELSE IF fn.stage = 0
             THEN [fn EXCEPT !.stage = 1, !.blocks = markdown_to_blocks(fn.body)]
             ELSE [fn EXCEPT !.stage = 3, !.blocks2 = markdown_to_blocks(fn.md)]
    /\ UNCHANGED <<syncVars, watcher, client, batch, workers>>

\* blocks_to_markdown on converted blocks or on the blocks of a remote page
BlocksToMarkdown ==
    /\ \/ fn.op = "convert" /\ fn.stage = 1
       \/ fn.op = "render" /\ fn.stage = 0
    /\ fn' = [fn EXCEPT !.stage = @ + 1, !.md = blocks_to_markdown(fn.blocks)]
    /\ UNCHANGED <<syncVars, watcher, client, batch, workers>>

\* update_frontmatter on a file with the header and body, then parse_file
UpdateFrontmatter ==
    /\ fn.op = "update"
    /\ fn.stage = 0
    /\ \E w \in {update_frontmatter(
                    (UserDoc :> [header |-> fn.header, body |-> fn.body, mtime |-> 0]),
                    UserDoc, fn.updates, 1, FALSE)} :
          /\ ~w.exc
          /\ fn' = [fn EXCEPT !.stage = 1, !.read = parse_file(w.files[UserDoc])]
    /\ UNCHANGED <<syncVars, watcher, client, batch, workers>>

\* lines 217-218 of sync_notion_to_file: the file name derived from the title
DeriveFilename ==
    /\ fn.op = "derive"
    /\ fn.stage = 0
    /\ fn' = [fn EXCEPT !.stage = 1, !.name = sanitize_title(fn.title)]
    /\ UNCHANGED <<syncVars, watcher, client, batch, workers>>

\* lines 62-72 of sync_file_to_notion on the file as parse_file reads it: the
\* title, and the blocks of the content
ResolveTitle ==
    /\ fn.op = "title"
    /\ fn.stage = 0
    /\ \E raw \in {post_content(fn.body)} :
          fn' = [fn EXCEPT !.stage = 1,
                           !.title = push_title(fn.header, raw, UserDoc),
                           !.blocks = markdown_to_blocks(raw)]
    /\ UNCHANGED <<syncVars, watcher, client, batch, workers>>

FnNext ==
    \/ MarkdownToBlocks
    \/ BlocksToMarkdown
    \/ UpdateFrontmatter
    \/ DeriveFilename
    \/ ResolveTitle

FnSpec == FnInit /\ [][FnNext]_vars

(***************************************************************************)
(* Properties of the front matter                                          *)
(***************************************************************************)
\* C11: update_frontmatter(path, U) on a document with header H and body B
\* leaves a document that reads back with the keys of H and U, U's value for
\* every key of U, H's value for every other key, and body B.
C11_MergeReadsBack ==
    (fn.op = "update" /\ fn.stage = 1) =>
        /\ DOMAIN fn.read.metadata = DOMAIN fn.header \cup DOMAIN fn.updates
        /\ \A k \in DOMAIN fn.updates : fn.read.metadata[k] = fn.updates[k]
        /\ \A k \in DOMAIN fn.header \ DOMAIN fn.updates :
              fn.read.metadata[k] = fn.header[k]
        /\ fn.read.content = post_content(fn.body)

\* an update that overwrote the title with a str that looks like an int, added
\* notion_page_id and kept a list
C11_OverwroteAddedKept ==
    /\ fn.op = "update"
    /\ fn.stage = 1
    /\ DOMAIN fn.header = {"title", "tags"}
    /\ DOMAIN fn.updates = {"title", "notion_page_id"}
    /\ fn.header["tags"].kind = "list"
    /\ fn.header["title"] # fn.updates["title"]
    /\ fn.read.metadata["title"] = Scalar("str", <<"1", "2">>)
    /\ fn.body # <<>>

(***************************************************************************)
(* Properties of the derived file name                                     *)
(***************************************************************************)
\* the title without the characters that are not kept, spaces as hyphens,
\* letters lowercased
KeptOfTitle(title) ==
    LET kept == SelectSeq(title, LAMBDA c : IsAlnum(c) \/ c \in {" ", "-", "_"})
    IN  [i \in 1..Len(kept) |-> IF kept[i] = " " THEN "-" ELSE Lower(kept[i])]

\* C14: the name derived from a title is the title with only alphanumerics,
\* space, hyphen and underscore kept, spaces as hyphens and letters
\* lowercased, and 'untitled-' plus the first 8 characters of the page id
\* when that is empty.
C14_DerivedName ==
    (fn.op = "derive" /\ fn.stage = 1) =>
        /\ fn.name # <<>>
        /\ fn.name = IF KeptOfTitle(fn.title) # <<>> THEN KeptOfTitle(fn.title)
                     ELSE <<"u", "n", "t", "i", "t", "l", "e", "d", "-">>
                          \o SubSeq(PageIdText, 1, 8)

(***************************************************************************)
(* Properties of the converters                                            *)
(***************************************************************************)
\* C15: markdown_to_blocks of the text rendered from markdown_to_blocks(b)
\* is markdown_to_blocks(b).
C15_RoundTripStable ==
    (fn.op = "convert" /\ fn.stage = 3) => fn.blocks2 = fn.blocks

\* a round trip of a body with an unclosed fence and another block, whose
\* rendered text differs from the body
C15_RoundTripOfUnclosedFence ==
    /\ fn.op = "convert"
    /\ fn.stage = 3
    /\ Len(fn.body) = 3
    /\ fn.body[3] = Fence
    /\ fn.blocks # <<>>
    /\ fn.blocks[1].type # "code"
    /\ fn.blocks[Len(fn.blocks)] = Block("code", <<>>, <<>>)
    /\ fn.md # fn.body

\* the number of non-blank lines outside fenced regions plus the number of
\* fenced regions, from line i on
RECURSIVE RegionCount(_, _, _)
RegionCount(lines, i, inFence) ==
    IF i > Len(lines) THEN 0
    ELSE IF inFence
    THEN RegionCount(lines, i + 1, ~StartsWith(Strip(lines[i]), Fence))
    ELSE IF Strip(lines[i]) = <<>> THEN RegionCount(lines, i + 1, FALSE)
    ELSE 1 + RegionCount(lines, i + 1, StartsWith(Strip(lines[i]), Fence))

IsHashLine(line) ==
    /\ LeadingHashes(line) >= 1
    /\ Len(line) > LeadingHashes(line) + 1
    /\ line[LeadingHashes(line) + 1] = " "
    /\ Strip(Drop(line, LeadingHashes(line) + 1)) # <<>>

HeadingTypes == {"heading_1", "heading_2", "heading_3"}

OtherTypes == {"paragraph", "code", "quote", "bulleted_list_item", "numbered_list_item"}

\* C17: a line of n >= 1 hashes, a space and text converts to a heading of
\* level min(n, 3), and every heading produced has a level in 1..3.
C17_HeadingLevelClamped ==
    (fn.op = "convert" /\ fn.stage >= 1) =>
        /\ \A i \in 1..Len(fn.blocks) : fn.blocks[i].type \in HeadingTypes \cup OtherTypes
        /\ (Len(fn.body) = 1 /\ IsHashLine(fn.body[1])) =>
              LET n == LeadingHashes(fn.body[1])
              IN  fn.blocks = <<Block(CASE n = 1 -> "heading_1" [] n = 2 -> "heading_2"
                                        [] OTHER -> "heading_3",
                                      Strip(Drop(fn.body[1], n + 1)), <<>>)>>

\* C18: blocks_to_markdown renders a block sequence as it renders the
\* sequence without its blocks of unsupported types.
C18_UnsupportedIgnored ==
    (fn.op = "render" /\ fn.stage = 1) =>
        fn.md = blocks_to_markdown(
                   SelectSeq(fn.blocks, LAMBDA b : b.type \in HeadingTypes \cup OtherTypes))

(***************************************************************************)
(* file_watcher.py: MarkdownFileEventHandler                               *)
(***************************************************************************)
\* self._debounce_seconds
debounce_seconds == 2

\* the watcher sees at most MaxEvents events
MaxEvents == 2

\* the watcher's clock stops at MaxTime
MaxTime == 9

\* time.time() when the watcher starts: later than the debounce window, as
\* every time since the epoch is
StartTime == debounce_seconds + 1

\* s.endswith(p)
EndsWith(s, p) == Len(s) >= Len(p) /\ SubSeq(s, Len(s) - Len(p) + 1, Len(s)) = p

\* p in s
Contains(s, p) == \E i \in 0..(Len(s) - Len(p)) : SubSeq(s, i + 1, i + Len(p)) = p

\* s.lower()
LowerText(s) == [i \in 1..Len(s) |-> Lower(s[i])]

\* _is_markdown_file(path)
is_markdown_file(path) ==
    \/ EndsWith(LowerText(path), <<".", "m", "d">>)
    \/ EndsWith(LowerText(path), <<".", "m", "a", "r", "k", "d", "o", "w", "n">>)

\* one pattern of the loop of _is_excluded: "matched" (return True) or
\* "next" (go on with the next pattern)
pattern_test(pattern, path) ==
    IF EndsWith(pattern, <<"/", "*", "*">>)
    THEN IF StartsWith(path, SubSeq(pattern, 1, Len(pattern) - 3)) THEN "matched" ELSE "next"
    ELSE IF StartsWith(pattern, <<"*">>) /\ EndsWith(pattern, <<"*">>)
    THEN IF Contains(path, SubSeq(pattern, 2, Len(pattern) - 1)) THEN "matched" ELSE "next"
    ELSE IF StartsWith(pattern, <<"*">>)
    THEN IF EndsWith(path, Drop(pattern, 1)) THEN "matched" ELSE "next"
    ELSE IF EndsWith(pattern, <<"*">>)
    THEN IF StartsWith(path, SubSeq(pattern, 1, Len(pattern) - 1)) THEN "matched" ELSE "next"
    ELSE IF pattern = path THEN "matched" ELSE "next"

\* an exclusion test that knows exact patterns only
is_excluded_exact_only(path, patterns) == \E i \in 1..Len(patterns) : patterns[i] = path

\* _is_excluded(path) with self.excluded_patterns = patterns
is_excluded(path, patterns) ==
    \E i \in 1..Len(patterns) : pattern_test(patterns[i], path) = "matched"

\* the configured exclusion patterns: one of each shape
\* ("d/**", "*t*", "*_.md", "e*", "x.md"), or none
ExcludedPatterns ==
    << <<"d", "/", "*", "*">>, <<"*", "t", "*">>, <<"*", "_", ".", "m", "d">>,
       <<"e", "*">>, <<"x", ".", "m", "d">> >>

PatternConfigs == {ExcludedPatterns, <<>>}

\* the paths of file events: markdown files (one in upper case), a text file,
\* one path for each pattern, and a file beside the excluded directory whose
\* name begins with the directory's name
PathA == <<"a", ".", "m", "d">>

PathBeside == <<"d", "x", ".", "m", "d">>

FilePaths ==
    { PathA, <<"B", ".", "M", "D">>, <<"a", ".", "t", "x", "t">>,
      <<"d", "/", "n", ".", "m", "d">>, <<"t", ".", "m", "d">>,
      <<"b", "_", ".", "m", "d">>, <<"e", ".", "m", "d">>, <<"x", ".", "m", "d">>,
      PathBeside }

\* a directory whose name ends in .md
DirPath == <<"s", ".", "m", "d">>

\* the events: [src_path, is_directory]
Events ==
    {[src_path |-> q, is_directory |-> FALSE] : q \in FilePaths}
    \cup {[src_path |-> DirPath, is_directory |-> TRUE]}

AllPaths == FilePaths \cup {DirPath}

\* The watcher: how the event source delivers events (one after another on
\* one dispatch thread, or each on a thread of its own), the excluded
\* patterns, the clock, the number of events seen and when each path last had
\* one, the events not yet dispatched, the handlers asleep in
\* _debounce_event ([path, current_time]), self._last_events (0: no entry),
\* the number of callbacks made for each path, and the paths of the events
\* the filters rejected.
WatcherStart(mode, patterns) ==
    [running |-> TRUE, mode |-> mode, patterns |-> patterns, clock |-> StartTime,
     emitted |-> 0, arrival |-> [q \in AllPaths |-> 0], queue |-> <<>>,
     sleeping |-> {}, last_events |-> [q \in AllPaths |-> 0],
     calls |-> [q \in AllPaths |-> 0], dropped |-> {}]

\* _debounce_event, lines 82-88: note the time, and go to sleep when the last
\* event for the path is more than the debounce window ago
debounce_begin(w, path) ==
    LET current_time == w.clock
        last_time == w.last_events[path]
    IN  [w EXCEPT !.last_events[path] = current_time,
                  !.sleeping = IF current_time - last_time > debounce_seconds
                               THEN @ \cup {[path |-> path, current_time |-> current_time]}
                               ELSE @]

\* _debounce_event, lines 91-95: after the sleep, call back when no later
\* event for the path was noted
debounce_end(w, h) ==
    [w EXCEPT !.sleeping = @ \ {h},
              !.calls[h.path] = IF w.last_events[h.path] = h.current_time
                                THEN @ + 1 ELSE @]

\* on_created and on_modified, lines 33-43
on_event(w, event) ==
    IF ~event.is_directory /\ is_markdown_file(event.src_path)
       /\ ~is_excluded(event.src_path, w.patterns)
    THEN debounce_begin(w, event.src_path)
    ELSE [w EXCEPT !.dropped = @ \cup {event.src_path}]

WatchInit ==
    /\ files = InitFile(HeaderPlain, 1)
    /\ pages = NoPages
    /\ created = 0
    /\ now = 1
    /\ config = "page_parent"
    /\ last = NoOp
    /\ hist = (UserDoc :> NoHist)
    /\ fn = NoCall
    /\ client = NoClient
    /\ batch = NoBatch
    /\ workers = NoWorkers
    /\ \E mode \in {"serial", "concurrent"}, patterns \in PatternConfigs :
          watcher = WatcherStart(mode, patterns)

\* the file system reports an event; events for one path form a burst, each
\* less than the debounce window after the previous one
EmitEvent(event) ==
    /\ watcher.emitted < MaxEvents
    /\ \/ watcher.arrival[event.src_path] = 0
       \/ watcher.clock - watcher.arrival[event.src_path] < debounce_seconds
    /\ watcher' = [watcher EXCEPT !.emitted = @ + 1,
                                  !.arrival[event.src_path] = watcher.clock,
                                  !.queue = Append(@, event)]

\* the next event can be dispatched: always when every event has a thread of
\* its own, and on the single dispatch thread when no handler is running
CanDispatch ==
    /\ watcher.queue # <<>>
    /\ watcher.mode = "serial" => watcher.sleeping = {}

OnCreated ==
    /\ CanDispatch
    /\ watcher' = on_event([watcher EXCEPT !.queue = Tail(@)], Head(watcher.queue))
    /\ UNCHANGED <<syncVars, fn, client, batch, workers>>

OnModified ==
    /\ CanDispatch
    /\ watcher' = on_event([watcher EXCEPT !.queue = Tail(@)], Head(watcher.queue))
    /\ UNCHANGED <<syncVars, fn, client, batch, workers>>

\* time.sleep(self._debounce_seconds) returns, not before the time is up
WakeUp(h) ==
    /\ watcher.clock >= h.current_time + debounce_seconds
    /\ watcher' = debounce_end(watcher, h)

DoEmitEvent ==
    /\ \E event \in Events : EmitEvent(event)
    /\ UNCHANGED <<syncVars, fn, client, batch, workers>>

DoWakeUp ==
    /\ \E h \in watcher.sleeping : WakeUp(h)
    /\ UNCHANGED <<syncVars, fn, client, batch, workers>>

WatchTick ==
    /\ watcher.clock < MaxTime
    /\ watcher' = [watcher EXCEPT !.clock = @ + 1]
    /\ UNCHANGED <<syncVars, fn, client, batch, workers>>

WatchNext ==
    \/ DoEmitEvent
    \/ OnCreated
    \/ OnModified
    \/ DoWakeUp
    \/ WatchTick

WatchSpec == WatchInit /\ [][WatchNext]_vars

(***************************************************************************)
(* Properties of the watcher                                               *)
(***************************************************************************)
\* C19: the events of one path forming one burst, the watcher calls back at
\* most once for the path, on a single dispatch thread or concurrently.
C19_OneCallbackPerBurst ==
    watcher.running => \A q \in AllPaths : watcher.calls[q] <= 1

\* the name ends in .md or .markdown, whatever the case of its letters
HasMarkdownExtension(path) ==
    \E ext \in {<<".", "m", "d">>, <<".", "m", "a", "r", "k", "d", "o", "w", "n">>} :
        /\ Len(path) >= Len(ext)
        /\ \A i \in 1..Len(ext) : Lower(path[Len(path) - Len(ext) + i]) = ext[i]

\* the path matches the pattern: prefix/** (subtree), *middle* (substring),
\* *suffix, prefix*, or the exact string
MatchesPattern(path, pattern) ==
    LET n == Len(pattern)
    IN  CASE n >= 3 /\ SubSeq(pattern, n - 2, n) = <<"/", "*", "*">> ->
                StartsWith(path, SubSeq(pattern, 1, n - 3))
          [] n >= 1 /\ pattern[1] = "*" /\ pattern[n] = "*" ->
                Contains(path, SubSeq(pattern, 2, n - 1))
          [] n >= 1 /\ pattern[1] = "*" -> EndsWith(path, SubSeq(pattern, 2, n))
          [] n >= 1 /\ pattern[n] = "*" -> StartsWith(path, SubSeq(pattern, 1, n - 1))
          [] OTHER -> path = pattern

\* C20: the watcher calls back only for paths that are no directory, have a
\* markdown extension and match no configured exclusion pattern.
C20_OnlyWantedPaths ==
    watcher.running =>
        \A q \in AllPaths :
            watcher.calls[q] > 0 =>
                /\ q # DirPath
                /\ HasMarkdownExtension(q)
                /\ \A i \in 1..Len(watcher.patterns) : ~MatchesPattern(q, watcher.patterns[i])

\* with patterns configured, the watcher called back for a.md and rejected
\* the event of a path under an excluded directory
C20_CalledBackAndRejected ==
    /\ watcher.running
    /\ watcher.patterns # <<>>
    /\ watcher.calls[PathA] = 1
    /\ <<"d", "/", "n", ".", "m", "d">> \in watcher.dropped

(***************************************************************************)
(* Properties of a push that fails part-way                                *)
(***************************************************************************)
\* C29: in the CREATE path the id returned by create_page is in the header
\* before the blocks are pushed: when pushing the blocks fails after the page
\* was created, the header holds the new page's id.
C29_IdWrittenBeforeBlocks ==
    (last.op = "push" /\ last.branch = "create" /\ last.creates = 1
     /\ last.fatal \in {"list", "append"})
        => last.id = created /\ last.id # last.idBefore

\* C30: a push in the UPDATE state that returns failure leaves the page with
\* the child blocks it had before the push.
C30_FailedUpdateKeepsBlocks ==
    (last.op = "push" /\ last.branch = "update" /\ last.outcome = "fail")
        => /\ last.idBefore \in DOMAIN pages
           /\ pages[last.idBefore].blocks = last.before

(***************************************************************************)
(* Pushing one document again and again, every page the pushes create      *)
(* staying in the workspace until somebody deletes it there                *)
(***************************************************************************)
MaxCreated == 2

RepushInit ==
    /\ now = 1
    /\ last = NoOp
    /\ hist = (UserDoc :> NoHist)
    /\ config \in {"page_parent", "database_parent"}
    /\ pages = NoPages
    /\ created = 0
    /\ files = InitFile(HeaderPlain, 1)
    /\ fn = NoCall
    /\ watcher = NoWatcher
    /\ client = NoClient
    /\ batch = NoBatch
    /\ workers = NoWorkers

\* sync_file_to_notion(path) once more
Repush(path, pf, sc) ==
    \E r \in {sync_file_to_notion(path, pf, sc)} :
        /\ r.clock <= MaxClock
        /\ created' = IF created + 1 \in DOMAIN r.pages THEN created + 1 ELSE created
        /\ created' <= MaxCreated
        /\ files' = r.files
        /\ pages' = r.pages
        /\ now' = r.clock
        /\ last' = [NoOp EXCEPT !.op = "push", !.path = path, !.outcome = r.ret,
                                !.id = link_of(r.files, path), !.branch = r.branch,
                                !.creates = r.creates, !.fatal = sc.fatal,
                                !.absorbed = r.absorbed, !.start = now,
                                !.idBefore = link_of(files, path)]
        /\ UNCHANGED <<config, hist>>

DoRepush ==
    /\ Idle
    /\ UNCHANGED aux
    /\ \E pf \in {push_parse(UserDoc)} :
          \E sc \in PushScenarios(UserDoc) : Repush(UserDoc, pf, sc)

\* somebody deletes a page in the remote workspace: it can no longer be retrieved
PageDeleted ==
    /\ Idle
    /\ \E id \in DOMAIN pages :
          /\ pages[id].live
          /\ pages' = [pages EXCEPT ![id].live = FALSE]
    /\ UNCHANGED <<files, created, now, config, last, hist, aux>>

RepushNext ==
    \/ DoRepush
    \/ PageDeleted
    \/ Tick
    \/ Return

RepushSpec == RepushInit /\ [][RepushNext]_vars

\* the pages created for the document that can still be retrieved
LivePages == {id \in DOMAIN pages : pages[id].live}

\* C28: over any sequence of pushes of the document, with failures possible
\* at any step, no second page is created for it while a page created for it
\* earlier still exists: at most one of its pages is retrievable at any time.
C28_OnePagePerDocument == Cardinality(LivePages) <= 1

(***************************************************************************)
(* notion_client.py: the rate budget, call by call                         *)
(***************************************************************************)
\* the remote's quota per window and the length of a window
RemoteQuota == 2

Window == 2

MaxGateTime == 4

\* the number of calls the callers issue in one window
MaxIssued == 4

\* the pages a listing has after the first, the children a page has
MaxLeft == 1

Callers == {1, 2}

\* _handle_rate_limits, line 26
rate_limit_threshold == 10

\* __init__, line 21
rate_limit_initial == 1000

\* a caller: the gateway operation it is in and the line it is at ("h..": a
\* call of _handle_rate_limits, "c..": a remote call), what is left of the
\* loop it is in, the parent's kind and the kind create_page found, the time
\* its sleep ends (0: not asleep), and whether it has passed a check since
\* its last remote call
IdleCaller == [op |-> "none", pc |-> "idle", left |-> 0, db |-> FALSE, isdb |-> FALSE,
               wake |-> 0, checked |-> FALSE]

Starts ==
    {[IdleCaller EXCEPT !.op = "get_page", !.pc = "h56"]}
    \cup {[IdleCaller EXCEPT !.op = "get_page_blocks", !.pc = "h70", !.left = n] :
             n \in 0..MaxLeft}
    \cup {[IdleCaller EXCEPT !.op = "update_page_blocks", !.pc = "h199", !.left = n] :
             n \in 0..MaxLeft}
    \cup {[IdleCaller EXCEPT !.op = "create_page", !.pc = "h102", !.db = d] : d \in BOOLEAN}

IsCheck(c) == c.pc \in {"h56", "h70", "h86", "h199", "h204", "h102"}

IsCall(c) == c.pc \in {"c57", "c75", "c205", "c208", "c112", "c126", "c161", "c181"}

\* where a caller goes when _handle_rate_limits returns
after_check(c) ==
    CASE c.pc = "h56" -> "c57"
      [] c.pc = "h199" -> "h70"
      [] c.pc \in {"h70", "h86"} -> "c75"
      [] c.pc = "h204" -> "c205"
      [] c.pc = "h102" -> "c112"

\* the remote accepts the call (quota left) and the call suits the parent
call_ok(c, quota) ==
    /\ quota > 0
    /\ c.pc = "c112" => c.db
    /\ c.pc = "c161" => c.isdb = c.db
    /\ c.pc = "c181" => c.isdb # c.db

\* create_page as it would be if line 181 were reached after a successful
\* first attempt as well
after_call_retry_always(c, ok) ==
    LET goto(pc) == [c EXCEPT !.pc = pc, !.checked = FALSE]
    IN  CASE c.pc = "c57" -> IdleCaller
          [] c.pc = "c75" /\ c.op = "get_page_blocks" ->
                IF ok /\ c.left > 0 THEN [goto("h86") EXCEPT !.left = c.left - 1]
                ELSE IdleCaller
          [] c.pc = "c75" /\ c.op = "update_page_blocks" ->
                IF ~ok THEN IdleCaller
                ELSE IF c.left > 0 THEN goto("h204") ELSE goto("c208")
          [] c.pc = "c205" ->
                IF ~ok THEN IdleCaller
                ELSE IF c.left > 1 THEN [goto("h204") EXCEPT !.left = c.left - 1]
                ELSE [goto("c208") EXCEPT !.left = 0]
          [] c.pc = "c208" -> IdleCaller
          [] c.pc = "c112" -> IF ok THEN [goto("c126") EXCEPT !.isdb = TRUE] ELSE goto("c161")
          [] c.pc = "c126" -> goto("c161")
          [] c.pc = "c161" -> goto("c181")
          [] c.pc = "c181" -> IdleCaller

\* where a caller goes when its remote call returns (ok) or raises
after_call(c, ok) ==
    LET goto(pc) == [c EXCEPT !.pc = pc, !.checked = FALSE]
    IN  CASE c.pc = "c57" -> IdleCaller
          [] c.pc = "c75" /\ c.op = "get_page_blocks" ->
                IF ok /\ c.left > 0 THEN [goto("h86") EXCEPT !.left = c.left - 1]
                ELSE IdleCaller
          [] c.pc = "c75" /\ c.op = "update_page_blocks" ->
                IF ~ok THEN IdleCaller
                ELSE IF c.left > 0 THEN goto("h204") ELSE goto("c208")
          [] c.pc = "c205" ->
                IF ~ok THEN IdleCaller
                ELSE IF c.left > 1 THEN [goto("h204") EXCEPT !.left = c.left - 1]
                ELSE [goto("c208") EXCEPT !.left = 0]
          [] c.pc = "c208" -> IdleCaller
          [] c.pc = "c112" -> IF ok THEN [goto("c126") EXCEPT !.isdb = TRUE] ELSE goto("c161")
          [] c.pc = "c126" -> goto("c161")
          [] c.pc = "c161" -> IF ok THEN IdleCaller ELSE goto("c181")
          [] c.pc = "c181" -> IdleCaller

\* what one call of create_page has done so far: its pages.create attempts
\* (lines 161 and 181: the parent kind it found, the kind it passed, whether
\* the remote accepted, and why not) and how it ended
NoCreate == [tries |-> <<>>, result |-> "none"]

\* the record of a create_page call after the remote call the caller c was at:
\* an attempt is added at lines 161 and 181, and the call has ended when the
\* caller is back at rest (line 162 or 182: the response; line 186: the error)
create_trace(tr, c, ok, quota, next) ==
    IF c.pc \notin {"c161", "c181"} THEN tr
    ELSE [tries |-> Append(tr.tries,
                       [found |-> c.isdb,
                        asdb |-> IF c.pc = "c161" THEN c.isdb ELSE ~c.isdb,
                        ok |-> ok,
                        why |-> IF ok THEN "none"
                                ELSE IF quota = 0 THEN "rate_limited" ELSE "wrong_kind"]),
          result |-> IF next # IdleCaller THEN "none"
                     ELSE IF ok THEN "response" ELSE "error"]

\* _update_rate_limits(response_headers), lines 39-44; no operation of the
\* gateway calls it
update_rate_limits(cl, headers) ==
    [cl EXCEPT !.rate_limit_remaining = headers.remaining,
               !.rate_limit_reset_at = headers.reset_at]

\* the gateway after __init__, the remote at the start of a window, and what
\* the remote reported in its latest response (remaining -1: nothing yet)
ClientStart ==
    [running |-> TRUE, rate_limit_remaining |-> rate_limit_initial, rate_limit_reset_at |-> 0,
     clock |-> 1, quota |-> RemoteQuota, reset_at |-> 1 + Window,
     reported |-> [remaining |-> -1, reset_at |-> 0],
     issued |-> 0, exhaustedCalls |-> 0,
     callers |-> [c \in Callers |-> IdleCaller],
     creates |-> [c \in Callers |-> NoCreate]]

GateInit ==
    /\ files = InitFile(HeaderPlain, 1)
    /\ pages = NoPages
    /\ created = 0
    /\ now = 1
    /\ config = "page_parent"
    /\ last = NoOp
    /\ hist = (UserDoc :> NoHist)
    /\ fn = NoCall
    /\ watcher = NoWatcher
    /\ batch = NoBatch
    /\ workers = NoWorkers
    /\ client = ClientStart

gateRest == <<syncVars, fn, watcher, batch, workers>>

\* a caller enters a gateway operation
StartOperation(c) ==
    /\ client.callers[c] = IdleCaller
    /\ \E st \in Starts : client' = [client EXCEPT !.callers[c] = st,
                                                   !.creates[c] = NoCreate]
    /\ UNCHANGED gateRest

\* the budget the remote reported last is below the threshold and its reset
\* time lies in the future
BudgetExhausted ==
    /\ client.reported.remaining >= 0
    /\ client.reported.remaining < rate_limit_threshold
    /\ client.clock < client.reported.reset_at

\* _handle_rate_limits, lines 26-30: sleep to one second after the reset time
\* when the stored counter is below the threshold and the reset time ahead
HandleRateLimits(c) ==
    LET me == client.callers[c]
    IN  /\ IsCheck(me)
        /\ IF me.wake # 0
           THEN /\ client.clock >= me.wake
                /\ client' = [client EXCEPT !.callers[c] =
                                 [me EXCEPT !.pc = after_check(me), !.wake = 0,
                                            !.checked = TRUE]]
           ELSE IF /\ client.rate_limit_remaining < rate_limit_threshold
                   /\ client.clock < client.rate_limit_reset_at
           THEN client' = [client EXCEPT !.callers[c].wake = client.rate_limit_reset_at + 1]
           ELSE client' = [client EXCEPT !.callers[c] =
                              [me EXCEPT !.pc = after_check(me), !.checked = TRUE]]
        /\ UNCHANGED gateRest

\* self.client.<endpoint>(...): the remote counts the call, answers it or
\* rejects it, and reports what is left; the gateway stores nothing of it
RemoteCall(c) ==
    LET me == client.callers[c]
        ok == call_ok(me, client.quota)
        left == IF client.quota > 0 THEN client.quota - 1 ELSE 0
    IN  /\ IsCall(me)
        /\ client.issued < MaxIssued
        /\ client' = [client EXCEPT
                         !.quota = left,
                         !.reported = [remaining |-> left, reset_at |-> client.reset_at],
                         !.issued = @ + 1,
                         !.exhaustedCalls = IF BudgetExhausted THEN 1 ELSE @,
                         !.callers[c] = after_call(me, ok),
                         !.creates[c] = create_trace(@, me, ok, client.quota,
                                                     after_call(me, ok))]
        /\ UNCHANGED gateRest

\* time passes; at the reset time the remote opens a new window
GateTick ==
    /\ client.clock < MaxGateTime
    /\ client' = IF client.clock + 1 >= client.reset_at
                 THEN [client EXCEPT !.clock = @ + 1, !.quota = RemoteQuota,
                                     !.reset_at = @ + Window, !.issued = 0]
                 ELSE [client EXCEPT !.clock = @ + 1]
    /\ UNCHANGED gateRest

GateNext ==
    \/ \E c \in Callers : StartOperation(c)
    \/ \E c \in Callers : HandleRateLimits(c)
    \/ \E c \in Callers : RemoteCall(c)
    \/ GateTick

GateSpec == GateInit /\ [][GateNext]_vars

(***************************************************************************)
(* Properties of the rate budget                                           *)
(***************************************************************************)
\* C21: while the rate budget is exhausted (the remaining quota below the
\* threshold, the reset time ahead) the gateway issues no remote call, in any
\* of its operations.
C21_NoCallWhileExhausted == client.running => client.exhaustedCalls = 0

\* C22: after any sequence of remote calls the stored counter and reset time
\* are those the remote reported in its latest response.
C22_BudgetFollowsRemote ==
    (client.running /\ client.reported.remaining >= 0)
        => /\ client.rate_limit_remaining = client.reported.remaining
           /\ client.rate_limit_reset_at = client.reported.reset_at

\* the caller has checked the budget and not yet issued the call it checked for
InBudgetSection(c) == client.callers[c].checked /\ IsCall(client.callers[c])

\* C23: concurrent callers go through the budget one at a time (no caller
\* checks while another is between its check and its call), and the calls
\* issued in one window do not exceed the window's quota.
C23_BudgetSerialized ==
    client.running =>
        /\ \A c1, c2 \in Callers : c1 # c2 => ~(InBudgetSection(c1) /\ InBudgetSection(c2))
        /\ client.issued <= RemoteQuota

(***************************************************************************)
(* Two sync operations running concurrently, step by step                  *)
(***************************************************************************)
Workers == {1, 2}

\* a second document, and titles of pages: two that give the same file name
\* and one that gives another
OtherDoc == <<"o">>

TitleB == <<"m", "y", " ", "t">>

TitleC == <<"N">>

PullTitles == {TitleA, TitleB, TitleC}

NoPage == Page(<<>>, <<>>, 0, NoProps)

\* a worker: the operation, its argument (the document of a push, the page id
\* of a pull), where it is, and its local variables: the blocks converted
\* from the document and the linked page id, the children listed and not yet
\* deleted, the page fetched and the path to write
Worker(op, doc, id) ==
    [op |-> op, doc |-> doc, id |-> id, pc |-> IF op = "push" THEN "parse" ELSE "fetch",
     failed |-> FALSE, blocks |-> <<>>, existing |-> <<>>, page |-> NoPage, path |-> <<>>]

\* cli.py 185-194: the first of name, name-1, name-2, ... that no file has
RECURSIVE free_name(_, _, _)
free_name(fs, name, counter) ==
    LET candidate == IF counter = 0 THEN name
                     ELSE name \o <<"-", <<"1", "2", "3", "4", "5", "6", "7", "8", "9">>[counter]>>
    IN  IF candidate \in DOMAIN fs THEN free_name(fs, name, counter + 1) ELSE candidate

\* the file a pull writes when the caller names none: sync_engine.py 217-220
\* (mode "engine"), or the path pull_workspace passes (mode "cli")
derived_path(fs, title, mode) ==
    IF mode = "cli" THEN free_name(fs, sanitize_title(title), 0) ELSE sanitize_title(title)

\* the sequence without the first element equal to b
RECURSIVE RemoveFirst(_, _)
RemoveFirst(seq, b) ==
    IF seq = <<>> THEN <<>>
    ELSE IF Head(seq) = b THEN Tail(seq)
    ELSE <<Head(seq)>> \o RemoveFirst(Tail(seq), b)

InSeq(seq, b) == \E i \in 1..Len(seq) : seq[i] = b

LinkedFile(body, id) ==
    [header |-> [title |-> TitleA, notion_page_id |-> id, tags |-> TagsA],
     body |-> body, mtime |-> 1]

TwoPages(t1, t2) ==
    (1 :> Page(t1, RemoteQuote, 0, NoProps)) @@ (2 :> Page(t2, RemoteMixed, 0, NoProps))

\* a whole push of the document, or a whole pull of the page, on the files and
\* pages of st, nothing failing
run_alone(st, w, mode, clk) ==
    IF w.op = "push"
    THEN LET id == linked_id(st.files[w.doc].header)
             blocks == markdown_to_blocks(post_content(st.files[w.doc].body))
             u == update_page_blocks(st.pages[id], blocks, "none", 0, clk)
             f == update_frontmatter(st.files, w.doc,
                      [last_synced |-> isoformat(datetime_now(clk))], clk, FALSE)
         IN  [files |-> f.files, pages |-> [st.pages EXCEPT ![id] = u.page]]
    ELSE LET page == st.pages[w.id]
             f == create_markdown_with_frontmatter(st.files,
                      derived_path(st.files, page.title, mode),
                      pull_metadata(w.id, page, clk), blocks_to_markdown(page.blocks),
                      clk, FALSE)
         IN  [files |-> f.files, pages |-> st.pages]

ConcInit ==
    /\ now = 1
    /\ created = 2
    /\ config = "page_parent"
    /\ last = NoOp
    /\ hist = (UserDoc :> NoHist)
    /\ fn = NoCall
    /\ watcher = NoWatcher
    /\ client = NoClient
    /\ batch = NoBatch
    /\ \/ \E l1, l2 \in {1, 2} :
             /\ files = (UserDoc :> LinkedFile(BodyHeading, l1))
                        @@ (OtherDoc :> LinkedFile(BodyMixed, l2))
             /\ pages = TwoPages(TitleA, TitleC)
             /\ workers = [running |-> TRUE, mode |-> "engine",
                           start |-> [files |-> files, pages |-> pages],
                           w |-> (1 :> Worker("push", UserDoc, 0))
                                 @@ (2 :> Worker("push", OtherDoc, 0)),
                           wroteFiles |-> [i \in Workers |-> {}],
                           wrotePages |-> [i \in Workers |-> {}]]
       \/ \E t1, t2 \in PullTitles, mode \in {"engine", "cli"} :
             /\ files = InitFile(HeaderPlain, 1)
             /\ pages = TwoPages(t1, t2)
             /\ workers = [running |-> TRUE, mode |-> mode,
                           start |-> [files |-> files, pages |-> pages],
                           w |-> (1 :> Worker("pull", <<>>, 1))
                                 @@ (2 :> Worker("pull", <<>>, 2)),
                           wroteFiles |-> [i \in Workers |-> {}],
                           wrotePages |-> [i \in Workers |-> {}]]

concRest == <<created, now, config, last, hist, fn, watcher, client, batch>>

\* sync_file_to_notion, lines 47-72: parse the file, find the linked page
PushParse(i) ==
    LET me == workers.w[i]
    IN  /\ me.pc = "parse"
        /\ workers' = [workers EXCEPT !.w[i] =
               [me EXCEPT !.pc = "list",
                          !.id = linked_id(files[me.doc].header),
                          !.blocks = markdown_to_blocks(post_content(files[me.doc].body))]]
        /\ UNCHANGED <<files, pages, concRest>>

\* update_page_blocks, line 202: list the children
PushList(i) ==
    LET me == workers.w[i]
    IN  /\ me.pc = "list"
        /\ workers' = [workers EXCEPT !.w[i] =
               [me EXCEPT !.pc = IF pages[me.id].blocks = <<>> THEN "append" ELSE "delete",
                          !.existing = pages[me.id].blocks]]
        /\ UNCHANGED <<files, pages, concRest>>

\* update_page_blocks, lines 203-205: delete the next listed child; deleting a
\* child that is gone already raises or does nothing
PushDelete(i) ==
    LET me == workers.w[i]
        b == Head(me.existing)
        rest == Tail(me.existing)
        on == [me EXCEPT !.existing = rest,
                         !.pc = IF rest = <<>> THEN "append" ELSE "delete"]
    IN  /\ me.pc = "delete"
        /\ IF InSeq(pages[me.id].blocks, b)
           THEN /\ pages' = [pages EXCEPT ![me.id].blocks = RemoveFirst(@, b),
                                          ![me.id].edited = now]
                /\ workers' = [workers EXCEPT !.w[i] = on,
                                              !.wrotePages[i] = @ \cup {me.id}]
           ELSE /\ pages' = pages
                /\ \/ workers' = [workers EXCEPT !.w[i] = on]
                   \/ workers' = [workers EXCEPT !.w[i] =
                                     [me EXCEPT !.pc = "done", !.failed = TRUE]]
        /\ UNCHANGED <<files, concRest>>

\* update_page_blocks, lines 208-211: append the new blocks
PushAppend(i) ==
    LET me == workers.w[i]
    IN  /\ me.pc = "append"
        /\ pages' = [pages EXCEPT ![me.id].blocks = @ \o me.blocks, ![me.id].edited = now]
        /\ workers' = [workers EXCEPT !.w[i].pc = "write", !.wrotePages[i] = @ \cup {me.id}]
        /\ UNCHANGED <<files, concRest>>

\* sync_file_to_notion, lines 147-150: the closing update_frontmatter
PushWrite(i) ==
    LET me == workers.w[i]
    IN  /\ me.pc = "write"
        /\ me.op = "push"
        /\ files' = update_frontmatter(files, me.doc,
                        [last_synced |-> isoformat(datetime_now(now))], now, FALSE).files
        /\ workers' = [workers EXCEPT !.w[i].pc = "done", !.wroteFiles[i] = @ \cup {me.doc}]
        /\ UNCHANGED <<pages, concRest>>

\* sync_notion_to_file, lines 173-220: fetch the page and its blocks; the path
\* is derived from the title
PullFetch(i) ==
    LET me == workers.w[i]
    IN  /\ me.pc = "fetch"
        /\ workers' = [workers EXCEPT !.w[i] =
               [me EXCEPT !.pc = "write", !.page = pages[me.id],
                          !.path = derived_path(files, pages[me.id].title, workers.mode)]]
        /\ UNCHANGED <<files, pages, concRest>>

\* sync_notion_to_file, line 223: write the file
PullWrite(i) ==
    LET me == workers.w[i]
    IN  /\ me.pc = "write"
        /\ me.op = "pull"
        /\ files' = create_markdown_with_frontmatter(files, me.path,
                        pull_metadata(me.id, me.page, now),
                        blocks_to_markdown(me.page.blocks), now, FALSE).files
        /\ workers' = [workers EXCEPT !.w[i].pc = "done", !.wroteFiles[i] = @ \cup {me.path}]
        /\ UNCHANGED <<pages, concRest>>

ConcNext ==
    \/ \E i \in Workers : PushParse(i)
    \/ \E i \in Workers : PushList(i)
    \/ \E i \in Workers : PushDelete(i)
    \/ \E i \in Workers : PushAppend(i)
    \/ \E i \in Workers : PushWrite(i)
    \/ \E i \in Workers : PullFetch(i)
    \/ \E i \in Workers : PullWrite(i)

ConcSpec == ConcInit /\ [][ConcNext]_vars

\* the files and pages after worker i's operation and then worker j's
OneAfterTheOther(i, j) ==
    run_alone(run_alone(workers.start, workers.w[i], workers.mode, now),
              workers.w[j], workers.mode, now)

BothDone == workers.running /\ \A i \in Workers : workers.w[i].pc = "done"

\* C24: two sync operations on distinct documents (pushes) or distinct remote
\* ids (pulls), interleaved in any way, end with the files and pages that
\* running them one after the other in some order gives, and write no file
\* and no page in common.
C24_ConcurrentAsSerial ==
    BothDone =>
        /\ \/ [files |-> files, pages |-> pages] = OneAfterTheOther(1, 2)
           \/ [files |-> files, pages |-> pages] = OneAfterTheOther(2, 1)
        /\ workers.wroteFiles[1] \cap workers.wroteFiles[2] = {}
        /\ workers.wrotePages[1] \cap workers.wrotePages[2] = {}

(***************************************************************************)
(* cli.py: sync_all, the batch over the markdown files found               *)
(***************************************************************************)
MaxDocs == 3

\* What happens to one document: in push direction sync_file_to_notion
\* returns success ("ok") or failure ("fail") or raises ("raised"); in pull
\* direction the file is gone ("absent"), parse_file raises ("unreadable"),
\* the header holds no notion_page_id ("no_id"), or sync_notion_to_file
\* returns or raises.
Outcomes(direction) ==
    IF direction = "push" THEN {"ok", "fail", "raised"}
    ELSE {"absent", "unreadable", "no_id", "ok", "fail", "raised"}

\* a loop body that counts a pull without notion_page_id as a failure
sync_all_count_no_id_fails(b, outcome) ==
    IF outcome = "ok" THEN [b EXCEPT !.success_count = @ + 1]
    ELSE IF outcome = "absent" THEN [b EXCEPT !.skipped_count = @ + 1]
    ELSE [b EXCEPT !.failure_count = @ + 1]

\* lines 385-426: the body of the loop for one document
sync_all_count(b, outcome) ==
    IF b.direction = "push"
    THEN CASE outcome = "raised" -> [b EXCEPT !.failure_count = @ + 1]
           [] outcome = "ok" -> [b EXCEPT !.success_count = @ + 1]
           [] OTHER -> [b EXCEPT !.failure_count = @ + 1]
    ELSE CASE outcome = "absent" -> [b EXCEPT !.skipped_count = @ + 1]
           [] outcome = "unreadable" -> [b EXCEPT !.failure_count = @ + 1]
           [] outcome = "no_id" -> [b EXCEPT !.skipped_count = @ + 1]
           [] outcome = "ok" -> [b EXCEPT !.success_count = @ + 1]
           [] outcome = "fail" -> [b EXCEPT !.failure_count = @ + 1]
           [] OTHER -> [b EXCEPT !.failure_count = @ + 1]

\* the batch: the direction, the number of files found, the counters, the
\* outcomes of the documents done so far, the document in progress ("none":
\* between documents), whether the summary was printed, and how the command
\* ended ("loop": still running)
BatchStart(direction, n) ==
    [running |-> TRUE, direction |-> direction, found |-> n,
     success_count |-> 0, failure_count |-> 0, skipped_count |-> 0,
     done |-> <<>>, current |-> "none", reported |-> FALSE, phase |-> "loop",
     half |-> FALSE]

BatchInit ==
    /\ files = InitFile(HeaderPlain, 1)
    /\ pages = NoPages
    /\ created = 0
    /\ now = 1
    /\ config = "page_parent"
    /\ last = NoOp
    /\ hist = (UserDoc :> NoHist)
    /\ fn = NoCall
    /\ watcher = NoWatcher
    /\ client = NoClient
    /\ workers = NoWorkers
    /\ \E direction \in {"push", "pull"}, n \in 1..MaxDocs : batch = BatchStart(direction, n)

batchRest == <<syncVars, fn, watcher, client, workers>>

\* the loop takes the next file and starts on it
BeginDocument ==
    /\ batch.phase = "loop"
    /\ batch.current = "none"
    /\ Len(batch.done) < batch.found
    /\ \E outcome \in Outcomes(batch.direction) : batch' = [batch EXCEPT !.current = outcome]
    /\ UNCHANGED batchRest

\* the document's sync returns or raises, and the loop counts it
FinishDocument ==
    /\ batch.phase = "loop"
    /\ batch.current # "none"
    /\ batch' = [sync_all_count(batch, batch.current) EXCEPT
                     !.done = Append(@, batch.current), !.current = "none"]
    /\ UNCHANGED batchRest

\* line 429: the summary after the loop
ReportCounts ==
    /\ batch.phase = "loop"
    /\ batch.current = "none"
    /\ Len(batch.done) = batch.found
    /\ batch' = [batch EXCEPT !.reported = TRUE, !.phase = "finished"]
    /\ UNCHANGED batchRest

\* the user interrupts the command: KeyboardInterrupt is raised wherever the
\* program is, no 'except Exception' catches it, and the command ends
Interrupt ==
    /\ batch.phase = "loop"
    /\ batch' = [batch EXCEPT !.phase = "interrupted", !.half = (batch.current # "none")]
    /\ UNCHANGED batchRest

BatchNext ==
    \/ BeginDocument
    \/ FinishDocument
    \/ ReportCounts
    \/ Interrupt

BatchSpec == BatchInit /\ [][BatchNext]_vars

(***************************************************************************)
(* Properties of the batch                                                 *)
(***************************************************************************)
RECURSIVE CountIn(_, _)
CountIn(seq, S) ==
    IF seq = <<>> THEN 0
    ELSE (IF Head(seq) \in S THEN 1 ELSE 0) + CountIn(Tail(seq), S)

\* C25: every document counts in exactly one counter: a success in succeeded,
\* a failure returned or raised in failed, a pull of a document without
\* notion_page_id (or of an absent file) in skipped; the batch goes on after a
\* failure, and at the end the three counters add up to the documents found.
C25_EveryDocumentCounted ==
    batch.running =>
        /\ batch.success_count = CountIn(batch.done, {"ok"})
        /\ batch.failure_count = CountIn(batch.done, {"fail", "raised", "unreadable"})
        /\ batch.skipped_count = CountIn(batch.done, {"no_id", "absent"})
        /\ batch.reported =>
              batch.success_count + batch.failure_count + batch.skipped_count = batch.found

\* a pull batch ended after a failure, a raised exception and a skipped
\* document without notion_page_id
C25_MixedBatchReported ==
    /\ batch.running
    /\ batch.reported
    /\ batch.direction = "pull"
    /\ batch.done = <<"raised", "no_id", "ok">>

\* C26: a batch interrupted after k of its n documents stopped between
\* documents, none left half-synced, and reported the counts of the k.
C26_InterruptReportsPartial ==
    (batch.running /\ batch.phase = "interrupted") => batch.reported /\ ~batch.half

(***************************************************************************)
(* cli.py watch in push direction: the watcher, the push it calls back,    *)
(* and the events the push's own writes raise                              *)
(***************************************************************************)
MaxQueue == 3

MaxPushes == 3

\* "more than the debounce window", the largest time the model keeps apart
Long == debounce_seconds + 1

\* The watched document: the way events are delivered, the modified events
\* not yet dispatched, the time since _last_events[path] was set (Long when
\* there is no entry), the handlers inside _debounce_event (asleep with so
\* much time remaining, or in the callback; latest: _last_events[path] still
\* holds the handler's current_time), whether the header holds a
\* notion_page_id, the number of pushes started (MaxPushes: that many or
\* more), and whether the user has saved the edit.
LoopStart(mode, linked) ==
    [running |-> TRUE, mode |-> mode, queue |-> 0, since |-> Long, handlers |-> {},
     linked |-> linked, pushes |-> 0, edited |-> FALSE]

LoopInit ==
    /\ files = InitFile(HeaderPlain, 1)
    /\ pages = NoPages
    /\ created = 0
    /\ now = 1
    /\ config = "page_parent"
    /\ last = NoOp
    /\ hist = (UserDoc :> NoHist)
    /\ fn = NoCall
    /\ client = NoClient
    /\ batch = NoBatch
    /\ workers = NoWorkers
    /\ \E mode \in {"serial", "concurrent"}, linked \in BOOLEAN :
          watcher = LoopStart(mode, linked)

loopRest == <<syncVars, fn, client, batch, workers>>

\* the user saves the one edit: a modified event
UserSaves ==
    /\ ~watcher.edited
    /\ watcher' = [watcher EXCEPT !.edited = TRUE, !.queue = @ + 1]
    /\ UNCHANGED loopRest

\* on_modified and _debounce_event, lines 39-43 and 80-91: note the time, and
\* go to sleep when the last event is more than the window ago
HandleModified ==
    /\ watcher.queue > 0
    /\ watcher.mode = "serial" => watcher.handlers = {}
    /\ watcher' = [watcher EXCEPT
           !.queue = @ - 1,
           !.since = 0,
           !.handlers = {[h EXCEPT !.latest = FALSE] : h \in watcher.handlers}
                        \cup (IF watcher.since > debounce_seconds
                              THEN {[state |-> "sleeping", remaining |-> debounce_seconds,
                                     latest |-> TRUE]}
                              ELSE {})]
    /\ UNCHANGED loopRest

\* _debounce_event, lines 94-95, and on_file_change, cli.py 449-459: the sleep
\* is over, the window and more has passed since the handler noted the time,
\* and when no later event was noted the push starts
SleepEnds(h) ==
    /\ h.state = "sleeping"
    /\ h.remaining = 0
    /\ watcher' = IF h.latest
                  THEN [watcher EXCEPT
                           !.handlers = (@ \ {h}) \cup {[h EXCEPT !.state = "pushing"]},
                           !.since = Long,
                           !.pushes = IF @ < MaxPushes THEN @ + 1 ELSE @]
                  ELSE [watcher EXCEPT !.handlers = @ \ {h}]
    /\ UNCHANGED loopRest

\* sync_file_to_notion returns: a push that succeeds has rewritten the header
\* (lines 146-150, and lines 136-142 before when it created the page), each
\* write a modified event; a push that fails has written nothing
PushReturns(h, ok) ==
    LET writes == IF ~ok THEN 0 ELSE IF watcher.linked THEN 1 ELSE 2
    IN  /\ h.state = "pushing"
        /\ watcher.queue + writes <= MaxQueue
        /\ watcher' = [watcher EXCEPT !.handlers = @ \ {h},
                                      !.queue = @ + writes,
                                      !.linked = @ \/ ok]
        /\ UNCHANGED loopRest

DoSleepEnds == \E h \in watcher.handlers : SleepEnds(h)

DoPushReturns == \E h \in watcher.handlers, ok \in BOOLEAN : PushReturns(h, ok)

\* time passes
LoopTick ==
    /\ watcher' = [watcher EXCEPT
           !.since = IF @ < Long THEN @ + 1 ELSE @,
           !.handlers = {IF h.state = "sleeping" /\ h.remaining > 0
                         THEN [h EXCEPT !.remaining = @ - 1] ELSE h : h \in watcher.handlers}]
    /\ UNCHANGED loopRest

LoopNext ==
    \/ UserSaves
    \/ HandleModified
    \/ DoSleepEnds
    \/ DoPushReturns
    \/ LoopTick

\* events are dispatched, sleeps end, pushes return and time passes
LoopSpec ==
    /\ LoopInit
    /\ [][LoopNext]_vars
    /\ WF_vars(HandleModified)
    /\ WF_vars(DoSleepEnds)
    /\ WF_vars(DoPushReturns)
    /\ WF_vars(LoopTick)

\* C27: after the single edit the pushes come to an end: from some point on
\* no event is pending and no handler is asleep or pushing.
C27_PushesSettle == <>[](watcher.queue = 0 /\ watcher.handlers = {})
(***************************************************************************)
(* Properties of create_page's attempts                                    *)
(***************************************************************************)
\* C31: a call of create_page makes at most two pages.create attempts, the
\* first with the parent kind it found and the second, made only after the
\* first failed, with the opposite kind; it ends with the response of the
\* first attempt that succeeded, and with the error only when both failed.
C31_AtMostTwoAttempts ==
    client.running =>
        \A c \in Callers :
            LET tr == client.creates[c]
                t == tr.tries
            IN  /\ Len(t) <= 2
                /\ Len(t) >= 1 => t[1].asdb = t[1].found
                /\ Len(t) = 2 => /\ ~t[1].ok
                                 /\ t[2].found = t[1].found
                                 /\ t[2].asdb # t[1].asdb
                /\ tr.result = "response" => /\ Len(t) >= 1
                                             /\ t[Len(t)].ok
                                             /\ \A i \in 1..(Len(t) - 1) : ~t[i].ok
                /\ tr.result = "error" => Len(t) = 2 /\ ~t[1].ok /\ ~t[2].ok
                /\ tr.result = "none" => \A i \in 1..Len(t) : ~t[i].ok

\* a call that failed with the kind it found and got the response of its
\* second attempt
C31_SecondAttemptReturned ==
    /\ client.running
    /\ \E c \in Callers :
          /\ client.creates[c].result = "response"
          /\ Len(client.creates[c].tries) = 2

\* C32: create_page makes its second attempt only when the first failed
\* because the remote reported the parent as being of the other kind; after
\* any other failure of the first attempt there is no second attempt.
C32_RetryOnlyOnWrongKind ==
    client.running =>
        \A c \in Callers :
            Len(client.creates[c].tries) = 2
                => client.creates[c].tries[1].why = "wrong_kind"

(***************************************************************************)
(* Properties of the debounce                                              *)
(***************************************************************************)
\* C33: the callback for a path is never made less than debounce_seconds
\* after the most recent event that occurred for the path.
C33_CallbackAfterQuietWindow ==
    [][\A q \in AllPaths :
          (watcher.running /\ watcher'.calls[q] > watcher.calls[q])
              => watcher.clock - watcher.arrival[q] >= debounce_seconds]_vars

\* C34: while a handler waits out the debounce window of one path, an event
\* for another path is accepted: the event at the head of the queue can be
\* dispatched.
C34_OtherPathNotHeldBack ==
    watcher.running =>
        \A h \in watcher.sleeping :
            (watcher.queue # <<>> /\ Head(watcher.queue).src_path # h.path)
                => CanDispatch

InSubtree(path, dir) == StartsWith(path, dir \o <<"/">>)

\* the path matches the pattern by its shape, prefix/** being the subtree
MatchesShape(path, pattern) ==
    LET n == Len(pattern)
    IN  CASE n >= 3 /\ SubSeq(pattern, n - 2, n) = <<"/", "*", "*">> ->
                InSubtree(path, SubSeq(pattern, 1, n - 3))
          [] n >= 1 /\ pattern[1] = "*" /\ pattern[n] = "*" ->
                Contains(path, SubSeq(pattern, 2, n - 1))
          [] n >= 1 /\ pattern[1] = "*" -> EndsWith(path, SubSeq(pattern, 2, n))
          [] n >= 1 /\ pattern[n] = "*" -> StartsWith(path, SubSeq(pattern, 1, n - 1))
          [] OTHER -> path = pattern

\* C38: _is_excluded(path) is true exactly when a configured pattern matches
\* the path by its shape: a markdown file the handlers rejected matches one,
\* and one they passed to the debounce matches none.
C38_ExcludedIffShapeMatches ==
    watcher.running =>
        \A q \in FilePaths :
            LET matched == \E i \in 1..Len(watcher.patterns) :
                               MatchesShape(q, watcher.patterns[i])
            IN  /\ (q \in watcher.dropped /\ is_markdown_file(q)) => matched
                /\ watcher.last_events[q] # 0 => ~matched

(***************************************************************************)
(* Properties of fences, titles and the pull-push round trip               *)
(***************************************************************************)
\* the first index >= i of a line whose trimmed form is the fence alone, or
\* Len(lines) + 1
RECURSIVE BareFenceAt(_, _)
BareFenceAt(lines, i) ==
    IF i > Len(lines) THEN i
    ELSE IF Strip(lines[i]) = Fence THEN i
    ELSE BareFenceAt(lines, i + 1)

\* C36: a body whose first line begins with three backticks converts to a
\* code block first, whose language is the trimmed rest of that line and
\* whose text is the lines after it, joined by newlines, up to the first line
\* whose trimmed form is exactly three backticks (a line of three backticks
\* and more text does not close the region), or up to the end.
C36_FenceClosesOnBareFence ==
    (fn.op = "convert" /\ fn.stage >= 1 /\ fn.body # <<>> /\ StartsWith(fn.body[1], Fence))
        => /\ fn.blocks # <<>>
           /\ fn.blocks[1] =
                 Block("code",
                       JoinLines(SubSeq(fn.body, 2, BareFenceAt(fn.body, 2) - 1)),
                       Strip(Drop(fn.body[1], 3)))

\* C37: the title of a push is the header's title when it has a non-empty
\* one, else the text of the first heading_1 block the body converts to, else
\* the file's stem.
C37_TitleFromHeaderHeadingOrStem ==
    (fn.op = "title" /\ fn.stage = 1) =>
        LET h1 == SelectSeq(fn.blocks, LAMBDA b : b.type = "heading_1")
        IN  fn.title = IF Has(fn.header, "title") /\ fn.header["title"] # <<>>
                       THEN fn.header["title"]
                       ELSE IF h1 # <<>> THEN h1[1].text
                       ELSE UserDoc

\* C40: the blocks of a page made of supported types only, rendered by a
\* pull and converted by the push of the pulled file, are the page's blocks.
C40_PullPushKeepsBlocks ==
    ( /\ fn.op = "render"
      /\ fn.stage = 2
      /\ \A i \in 1..Len(fn.blocks) : fn.blocks[i].type \in HeadingTypes \cup OtherTypes )
        => fn.blocks2 = fn.blocks

(***************************************************************************)
(* What a push leaves of the document                                      *)
(***************************************************************************)
\* the header keys a push writes
PushKeys == {"notion_page_id", "last_synced"}

\* C39: a push that returns success leaves the document with the body it
\* had (as parse_file reads it) and with every header key other than
\* notion_page_id and last_synced at its value, adds no other key, and on
\* the UPDATE path leaves notion_page_id as it was.
C39_PushChangesOnlyLinkKeys ==
    [][(last.op = "none" /\ last'.op = "push" /\ last'.outcome = "ok") =>
          LET p == last'.path
              before == files[p]
              after == files'[p]
          IN  /\ DOMAIN files' = DOMAIN files
              /\ post_content(after.body) = post_content(before.body)
              /\ DOMAIN before.header \subseteq DOMAIN after.header
              /\ DOMAIN after.header \subseteq DOMAIN before.header \cup PushKeys
              /\ \A k \in DOMAIN before.header \ PushKeys :
                    after.header[k] = before.header[k]
              /\ last'.branch = "update" =>
                    after.header["notion_page_id"] = before.header["notion_page_id"]]_vars

\* a push on the UPDATE path has returned success on a document whose body
\* had a blank last line: the header has its title and tags, the link it had
\* and a new last_synced
C39_UpdatePushReturned ==
    /\ last.op = "push"
    /\ last.outcome = "ok"
    /\ last.branch = "update"
    /\ last.path \in DOMAIN files
    /\ files[last.path].body = post_content(BodyMixed)
    /\ files[last.path].header["title"] = TitleA
    /\ files[last.path].header["tags"] = TagsA
    /\ files[last.path].header["notion_page_id"] = last.idBefore
    /\ Has(files[last.path].header, "last_synced")

====
